---- MODULE Spec2Model ----
(***************************************************************************)
(* LokoSwap: the loko_swap constant-product pool (programs/loko_swap).     *)
(* State: the pool Config account, the two vault token accounts, the LP    *)
(* mint supply and the LP token accounts of the users.  One action per     *)
(* instruction handler.  The token types' extension data (transfer fee,    *)
(* transfer hook) is external state read on every instruction.             *)
(*                                                                         *)
(* Every handler is a function of the state it finds and its arguments:    *)
(* XxxResult(in) is the error it returns, or "Ok" with the balances it     *)
(* leaves.  An instruction that returns an error is rolled back by the     *)
(* runtime and changes nothing: it is a stuttering step, so the actions    *)
(* are the instructions that succeed.                                      *)
(*                                                                         *)
(* The curve (crate constant_product_curve) and the token program are      *)
(* collaborators whose code is not part of the sources: they are modelled  *)
(* from sections 4.1, 4.2 and 6 of the specification.                      *)
(***************************************************************************)
EXTENDS Integers, Sequences, FiniteSets, TLC

VARIABLES
    initialized,   \* the Config account exists (Initialize's `init` has run)
    config,        \* state::Config
    vault_x,       \* vault_x.amount
    vault_y,       \* vault_y.amount
    lp_supply,     \* mint_lp.supply
    user_lp,       \* user_lp.amount of every user
    ext,           \* extension data of each mint (read by TokenExtensions::new)
    last,          \* name of the last instruction that succeeded
    calc,          \* one call of a token_utils fee function: arguments, result
    fee_stats,     \* dynamic_fee_hook: the DynamicFeeStats account
    clock,         \* Clock::get()?.unix_timestamp
    hook,          \* dynamic_fee_hook: outcome of the last transfer_hook, history
    run,           \* one instruction of the pool, statement by statement
    dex            \* amm_dex: the accounts of one pool and of its user

vars ==
    <<initialized, config, vault_x, vault_y, lp_supply, user_lp, ext, last, calc,
      fee_stats, clock, hook, run, dex>>

\* The variables of the dynamic_fee_hook program.
hook_vars == <<fee_stats, clock, hook>>

----------------------------------------------------------------------------
(* Bounds of the model *)

MaxAmount == 3     \* largest token amount argument (max_x, min_x, swap amount, ...)
MaxShares == 2     \* largest LP amount argument of deposit / withdraw
MaxVault == 5      \* a deposit or swap that would push a vault above is not taken
MaxSupply == 3     \* a deposit that would push the LP supply above is not taken
U64Bits == 10      \* width of a u64 in the model (64 in the program)

(* Program constants *)

MaxPoolFee == 1000          \* initialize.rs: require!(fee <= 1000)
BasisPoints == 10000        \* token_utils.rs: checked_div(10_000)

None == "None"              \* Option::None of an Option<Pubkey>

\* An Option<u64> as a sequence of length 0 or 1.
Some(v) == <<v>>
NoValue == << >>
Keys == {"k1", "k2"}        \* signers: users, admins
Depositors == {"k2"}        \* the signers that provide liquidity
Mints == {"mA", "mB"}
HookPrograms == {"h1"}
Amounts == 0..MaxAmount
Shares == 0..MaxShares

Min(a, b) == IF a <= b THEN a ELSE b

\* u64::saturating_sub
saturating_sub(a, b) == IF a >= b THEN a - b ELSE 0

Max(a, b) == IF a >= b THEN a ELSE b

\* u64::MAX
U64Max == 2^U64Bits - 1

\* `v as u64` of a u128 value: the cast keeps the low bits.
as_u64(v) == v % (2^U64Bits)

----------------------------------------------------------------------------
(* Token types.  TokenExtensions::create_extensions reads these fields from *)
(* the mint account; a legacy Token mint has no extension.                  *)

Plain ==
    [has_transfer_fee |-> FALSE, has_transfer_hook |-> FALSE,
     transfer_hook_program_id |-> None,
     transfer_fee_basis_points |-> 0, transfer_fee_maximum |-> 0,
     unsupported |-> FALSE]

FeeCapped ==     \* 25% transfer fee capped at 1 unit
    [Plain EXCEPT !.has_transfer_fee = TRUE,
                  !.transfer_fee_basis_points = 2500,
                  !.transfer_fee_maximum = 1]

FeeUncapped ==   \* 50% transfer fee, cap never reached
    [Plain EXCEPT !.has_transfer_fee = TRUE,
                  !.transfer_fee_basis_points = 5000,
                  !.transfer_fee_maximum = 1000]

Hooked ==        \* transfer hook only
    [Plain EXCEPT !.has_transfer_hook = TRUE,
                  !.transfer_hook_program_id = "h1"]

FullFee ==       \* 100% transfer fee: nothing of a transfer arrives
    [Plain EXCEPT !.has_transfer_fee = TRUE,
                  !.transfer_fee_basis_points = BasisPoints,
                  !.transfer_fee_maximum = 1000]

NonTransferable ==   \* an extension check_unsupported_extensions rejects
    [Plain EXCEPT !.unsupported = TRUE]

\* The token types of the two mints in a behaviour: <<mA, mB>>.
MintProfiles ==
    { <<Plain, Plain>>, <<FeeCapped, FeeUncapped>>, <<Hooked, Plain>>,
      <<Plain, FullFee>>, <<Plain, NonTransferable>> }

\* TokenExtensions::calculate_fee
calculate_fee(e, amount) ==
    IF e.has_transfer_fee
    THEN Min(as_u64((amount * e.transfer_fee_basis_points) \div BasisPoints),
             e.transfer_fee_maximum)
    ELSE 0

\* TokenExtensions::calculate_gross_for_net panics: checked_div(10_000 -
\* fee_rate) is None when the fee rate is 10_000, and unwrap() aborts the
\* instruction.
calculate_gross_for_net_panics(e) ==
    /\ e.has_transfer_fee
    /\ e.transfer_fee_basis_points > 0
    /\ BasisPoints - e.transfer_fee_basis_points = 0

\* TokenExtensions::calculate_gross_for_net (0 stands for no value where it
\* panics).
calculate_gross_for_net(e, net_amount) ==
    IF e.has_transfer_fee /\ e.transfer_fee_basis_points > 0
    THEN IF calculate_gross_for_net_panics(e)
         THEN 0
         ELSE as_u64((net_amount * BasisPoints)
                         \div (BasisPoints - e.transfer_fee_basis_points))
    ELSE net_amount

\* Token transfer service (specification, sections 4.2 and 6): the token type
\* withholds fee(amount) from a transfer of `amount`; the destination
\* receives the rest.
TransferReceived(e, amount) == amount - calculate_fee(e, amount)

----------------------------------------------------------------------------
(* token_utils: the fee functions on a mint account.  A mint account is     *)
(* owned by the Token-2022 program or by the legacy Token program; only a   *)
(* Token-2022 mint can carry a TransferFeeConfig, whose newer_transfer_fee  *)
(* holds the rate and the cap.                                              *)

FeeRates == {0, 1, 50, 2500, 5000, 9999, BasisPoints}
FeeCaps == {0, 1, 3, U64Max}

LegacyMint ==
    [is_token_2022 |-> FALSE, has_transfer_fee_extension |-> FALSE,
     transfer_fee_basis_points |-> 0, maximum_fee |-> 0]

MintAccounts ==
    {LegacyMint, [LegacyMint EXCEPT !.is_token_2022 = TRUE]}
    \cup { [is_token_2022 |-> TRUE, has_transfer_fee_extension |-> TRUE,
            transfer_fee_basis_points |-> bp, maximum_fee |-> cap] :
            bp \in FeeRates, cap \in FeeCaps }

\* get_transfer_fee_config(..).newer_transfer_fee
get_transfer_fee_config(m) ==
    [transfer_fee_basis_points |-> m.transfer_fee_basis_points,
     maximum_fee |-> m.maximum_fee]

\* TokenExtensions::create_extensions
create_extensions(m) ==
    IF ~m.is_token_2022
    THEN Plain
    ELSE IF m.has_transfer_fee_extension
         THEN [Plain EXCEPT
                  !.has_transfer_fee = TRUE,
                  !.transfer_fee_basis_points =
                      get_transfer_fee_config(m).transfer_fee_basis_points,
                  !.transfer_fee_maximum = get_transfer_fee_config(m).maximum_fee]
         ELSE Plain

\* calculate_transfer_fee
calculate_transfer_fee(amount, fee_config) ==
    Min(as_u64((amount * fee_config.transfer_fee_basis_points) \div BasisPoints),
        fee_config.maximum_fee)

\* checked_div(10_000 - fee_rate).unwrap() panics when the divisor is 0.
GrossDivisorIsZero(fee_rate) == BasisPoints - fee_rate = 0

\* calculate_gross_amount (0 stands for no value where it panics)
calculate_gross_amount(net_amount, fee_config) ==
    IF fee_config.transfer_fee_basis_points = 0
    THEN net_amount
    ELSE IF GrossDivisorIsZero(fee_config.transfer_fee_basis_points)
         THEN 0
         ELSE as_u64((net_amount * BasisPoints)
                         \div (BasisPoints - fee_config.transfer_fee_basis_points))

\* calculate_net_amount
calculate_net_amount(gross_amount, fee_config) ==
    saturating_sub(gross_amount, calculate_transfer_fee(gross_amount, fee_config))

\* calculate_fee_direct without std::cmp::min(fee, maximum_fee)
calculate_fee_directMutant(m, amount) ==
    IF ~m.is_token_2022 \/ ~m.has_transfer_fee_extension
    THEN 0
    ELSE as_u64((amount * get_transfer_fee_config(m).transfer_fee_basis_points)
                    \div BasisPoints)

\* calculate_fee_direct
calculate_fee_direct(m, amount) ==
    IF ~m.is_token_2022 \/ ~m.has_transfer_fee_extension
    THEN 0
    ELSE Min(as_u64((amount * get_transfer_fee_config(m).transfer_fee_basis_points)
                        \div BasisPoints),
             get_transfer_fee_config(m).maximum_fee)

\* calculate_gross_for_net_direct (0 stands for no value where it panics)
calculate_gross_for_net_direct(m, net_amount) ==
    IF ~m.is_token_2022 \/ ~m.has_transfer_fee_extension
    THEN net_amount
    ELSE IF get_transfer_fee_config(m).transfer_fee_basis_points = 0
         THEN net_amount
         ELSE IF GrossDivisorIsZero(get_transfer_fee_config(m).transfer_fee_basis_points)
              THEN 0
              ELSE as_u64((net_amount * BasisPoints)
                      \div (BasisPoints
                            - get_transfer_fee_config(m).transfer_fee_basis_points))

\* No call of a fee function: the value of calc in the pool's behaviours.
NoCalc ==
    [fn |-> "none", mint |-> LegacyMint, amount |-> 0, out |-> 0,
     panicked |-> FALSE]

----------------------------------------------------------------------------
(* Curve engine (specification, section 4.1).                               *)

\* deposit_amounts: proportional, floor.  Fails when a step cannot be computed.
xy_deposit_amounts_from_l(x, y, l, a) ==
    IF l = 0
    THEN [ok |-> FALSE, x |-> 0, y |-> 0]
    ELSE [ok |-> TRUE, x |-> (a * x) \div l, y |-> (a * y) \div l]

\* withdraw_amounts: the symmetric proportional formula.
xy_withdraw_amounts_from_l(x, y, l, a) ==
    IF l = 0
    THEN [ok |-> FALSE, x |-> 0, y |-> 0]
    ELSE [ok |-> TRUE, x |-> (a * x) \div l, y |-> (a * y) \div l]

\* ConstantProduct::init: a pool with an empty reserve cannot be priced.
CurveInitOk(x, y) == x > 0 /\ y > 0

\* swap: the trading fee is taken from the input, then amount_out solves
\* reserve_in' * reserve_out' = reserve_in * reserve_out, rounded so that the
\* product does not decrease; fails when amount_out < min.
CurveSwap(reserve_in, reserve_out, a, min, fee_bp) ==
    LET a2 == (a * (BasisPoints - fee_bp)) \div BasisPoints
        out == (reserve_out * a2) \div (reserve_in + a2)
    IN  IF out < min
        THEN [ok |-> FALSE, withdraw |-> out]
        ELSE [ok |-> TRUE, withdraw |-> out]

----------------------------------------------------------------------------
(* dynamic_fee_hook: the velocity-based fee controller.  One DynamicFeeStats *)
(* account (seeds = [b"fee_stats"]) is updated by every transfer_hook.       *)

RingSize == 6               \* recent_transfers: [u64; 6]
SlotSeconds == 60           \* if time_diff >= 60
SeedBaseFee == 10           \* fee_stats.base_fee_basis_points = 10
SeedMaxFee == 300           \* fee_stats.max_fee_basis_points = 300
BurstMultiple == 10         \* amount > fee_stats.avg_transfer_size * 10
U16Max == 65535             \* u16::MAX

Slots == 0..(RingSize - 1)

\* The account as init_if_needed creates it: every field zero.
ZeroStats ==
    [total_fees_collected |-> 0, total_transfers |-> 0, total_volume |-> 0,
     current_fee_basis_points |-> 0, base_fee_basis_points |-> 0,
     max_fee_basis_points |-> 0,
     recent_transfers |-> [i \in Slots |-> 0],
     recent_volumes |-> [i \in Slots |-> 0],
     current_minute_slot |-> 0, last_update_timestamp |-> 0,
     peak_tps |-> 0, avg_transfer_size |-> 0]

\* fee_stats.recent_transfers.iter().sum::<u64>()
SumSlots(f) == f[0] + f[1] + f[2] + f[3] + f[4] + f[5]

\* The value of a singleton set: binds an intermediate value once.
Only(S) == CHOOSE v \in S : TRUE

\* One turn of the loop that leaves the slot's volume in place.
RotateAndZeroMutant(st) ==
    [st EXCEPT !.current_minute_slot = (@ + 1) % RingSize,
               !.recent_transfers[(st.current_minute_slot + 1) % RingSize] = 0]

\* One turn of the loop: rotate current_minute_slot, zero that slot.
RotateAndZero(st) ==
    [st EXCEPT !.current_minute_slot = (@ + 1) % RingSize,
               !.recent_transfers[(st.current_minute_slot + 1) % RingSize] = 0,
               !.recent_volumes[(st.current_minute_slot + 1) % RingSize] = 0]

\* for _ in 0..windows_to_advance { ... }
RECURSIVE AdvanceRing(_, _)
AdvanceRing(st, windows_to_advance) ==
    IF windows_to_advance = 0
    THEN st
    ELSE Only({ AdvanceRing(next, windows_to_advance - 1) :
                   next \in {RotateAndZero(st)} })

\* The ring advanced by at most five slots.
WindowsToAdvanceMutant(time_diff) ==
    IF time_diff >= SlotSeconds
    THEN Min(RingSize - 1, time_diff \div SlotSeconds)
    ELSE 0

\* std::cmp::min(6, (time_diff / 60) as usize), 0 when the ring does not move
WindowsToAdvance(time_diff) ==
    IF time_diff >= SlotSeconds
    THEN Min(RingSize, time_diff \div SlotSeconds)
    ELSE 0

\* The tiers with the first threshold exclusive.
TieredFeeMutant(st, total_tpm) ==
    IF total_tpm < 10 THEN st.base_fee_basis_points
    ELSE IF total_tpm <= 30 THEN st.base_fee_basis_points * 2
    ELSE IF total_tpm <= 60 THEN st.base_fee_basis_points * 5
    ELSE IF total_tpm <= 120 THEN st.base_fee_basis_points * 12
    ELSE st.max_fee_basis_points

\* The tiered target of a window total.
TieredFee(st, total_tpm) ==
    IF total_tpm <= 10 THEN st.base_fee_basis_points
    ELSE IF total_tpm <= 30 THEN st.base_fee_basis_points * 2
    ELSE IF total_tpm <= 60 THEN st.base_fee_basis_points * 5
    ELSE IF total_tpm <= 120 THEN st.base_fee_basis_points * 12
    ELSE st.max_fee_basis_points

\* The fee moved toward the target by at most half of fee_change_limit.
SmoothedFeeHalfStepMutant(st, base_fee) ==
    IF base_fee > st.current_fee_basis_points
    THEN Min(base_fee, st.current_fee_basis_points
                           + st.base_fee_basis_points \div 2)
    ELSE Max(base_fee,
             saturating_sub(st.current_fee_basis_points,
                            st.base_fee_basis_points \div 2))

\* The target taken at once, without the limit on the change.
SmoothedFeeMutant(st, base_fee) == base_fee

\* The fee moved toward the target by at most fee_change_limit.
SmoothedFee(st, base_fee) ==
    IF base_fee > st.current_fee_basis_points
    THEN Min(base_fee, st.current_fee_basis_points + st.base_fee_basis_points)
    ELSE Max(base_fee,
             saturating_sub(st.current_fee_basis_points, st.base_fee_basis_points))

\* fee_stats.avg_transfer_size > 0 && amount > fee_stats.avg_transfer_size * 10
BurstPenaltyApplies(avg_transfer_size, amount, ten_times) ==
    avg_transfer_size > 0 /\ amount > ten_times

\* (fee_stats.current_fee_basis_points as f64 * 1.5) as u16
TimesOneAndAHalf(fee) == Min((fee * 3) \div 2, U16Max)

\* The result of a function on the account: the error it returns ("Ok" for
\* none) and the account as the function leaves it in memory.
HookReturn(err, st) == [err |-> err, fee_stats |-> st]

\* Lines 136-149: the ring is advanced when a minute or more has passed.
AdvanceWindow(st, current_timestamp) ==
    IF current_timestamp - st.last_update_timestamp >= SlotSeconds
    THEN [AdvanceRing(st, WindowsToAdvance(current_timestamp
                                               - st.last_update_timestamp))
             EXCEPT !.last_update_timestamp = current_timestamp]
    ELSE st

\* Lines 150-156: the transfer is counted in the current slot.
CountTransfer(s1, amount) ==
    LET current_slot == s1.current_minute_slot
        transfers == s1.recent_transfers[current_slot] + 1
        volume == s1.recent_volumes[current_slot] + amount
    IN  IF transfers > U64Max
        THEN HookReturn("MathOverflow", s1)
        ELSE IF volume > U64Max
        THEN HookReturn("MathOverflow",
                        [s1 EXCEPT !.recent_transfers[current_slot] = transfers])
        ELSE HookReturn("Ok",
                        [s1 EXCEPT !.recent_transfers[current_slot] = transfers,
                                   !.recent_volumes[current_slot] = volume])

\* Lines 159-167: the running average.  `overflow_checks` is the build's
\* setting: an unchecked `+` or `*` that overflows panics with it and wraps
\* without it.
UpdateAverage(s3, amount, overflow_checks) ==
    LET product == s3.avg_transfer_size * s3.total_transfers
        count == s3.total_transfers + 1
    IN  IF s3.total_transfers = 0
        THEN HookReturn("Ok", [s3 EXCEPT !.avg_transfer_size = amount])
        ELSE IF product > U64Max \/ product + amount > U64Max
        THEN HookReturn("MathOverflow", s3)
        ELSE IF count > U64Max
        THEN HookReturn(IF overflow_checks THEN "ProgramFailedToComplete"
                                           ELSE "MathOverflow", s3)
        ELSE HookReturn("Ok", [s3 EXCEPT !.avg_transfer_size =
                                            (product + amount) \div count])

\* Lines 158, 169-193: the tiered target, the smoothing, peak_tps.
UpdateFee(s4) ==
    LET total_tpm == SumSlots(s4.recent_transfers)
        current_tps == Min(total_tpm \div 60, U16Max)
    IN  [s4 EXCEPT !.peak_tps = Max(@, current_tps),
                   !.current_fee_basis_points =
                       Min(SmoothedFee(s4, TieredFee(s4, total_tpm)),
                           s4.max_fee_basis_points)]

\* Lines 194-199: the burst penalty.
BurstPenalty(s6, amount, overflow_checks) ==
    LET ten_times == s6.avg_transfer_size * BurstMultiple IN
    IF s6.avg_transfer_size > 0 /\ ten_times > U64Max /\ overflow_checks
    THEN HookReturn("ProgramFailedToComplete", s6)
    ELSE IF BurstPenaltyApplies(s6.avg_transfer_size, amount, as_u64(ten_times))
    THEN HookReturn("Ok",
                    [s6 EXCEPT !.current_fee_basis_points =
                                  Min(TimesOneAndAHalf(@), s6.max_fee_basis_points)])
    ELSE HookReturn("Ok", s6)

\* update_velocity_and_calculate_fee: the steps in order, stopping at the
\* first error.
update_velocity_and_calculate_fee(fee_stats0, current_timestamp, amount, overflow_checks) ==
    Only({ IF counted.err # "Ok"
           THEN counted
           ELSE Only({ IF averaged.err # "Ok"
                       THEN averaged
                       ELSE Only({ BurstPenalty(s6, amount, overflow_checks) :
                                      s6 \in {UpdateFee(averaged.fee_stats)} }) :
                          averaged \in {UpdateAverage(counted.fee_stats, amount,
                                                     overflow_checks)} }) :
              counted \in { CountTransfer(s1, amount) :
                               s1 \in {AdvanceWindow(fee_stats0, current_timestamp)} } })

\* The seeding without the maximum fee.
SeedOnFirstUseMutant(st, now) ==
    IF st.total_transfers = 0
    THEN [st EXCEPT !.base_fee_basis_points = SeedBaseFee,
                    !.current_fee_basis_points = SeedBaseFee,
                    !.last_update_timestamp = now]
    ELSE st

\* Lines 70-77: the account is seeded on first use.
SeedOnFirstUse(st, now) ==
    IF st.total_transfers = 0
    THEN [st EXCEPT !.base_fee_basis_points = SeedBaseFee,
                    !.current_fee_basis_points = SeedBaseFee,
                    !.max_fee_basis_points = SeedMaxFee,
                    !.last_update_timestamp = now]
    ELSE st

\* The running totals with the volume left as it was.
UpdateTotalsMutant(st, amount) ==
    IF st.total_transfers + 1 > U64Max
    THEN HookReturn("MathOverflow", st)
    ELSE HookReturn("Ok", [st EXCEPT !.total_transfers = @ + 1])

\* Lines 84-89: the running totals.
UpdateTotals(st, amount) ==
    IF st.total_transfers + 1 > U64Max
    THEN HookReturn("MathOverflow", st)
    ELSE IF st.total_volume + amount > U64Max
    THEN HookReturn("MathOverflow", [st EXCEPT !.total_transfers = @ + 1])
    ELSE HookReturn("Ok", [st EXCEPT !.total_transfers = @ + 1,
                                     !.total_volume = @ + amount])

\* transfer_hook: check_transfer_state, the seeding on first use, the update
\* and the running totals.
transfer_hook(fee_stats0, now, amount, transferring, overflow_checks) ==
    IF ~transferring
    THEN HookReturn("InvalidTransferState", fee_stats0)
    ELSE Only({ IF updated.err # "Ok"
                THEN updated
                ELSE UpdateTotals(updated.fee_stats, amount) :
                   updated \in { update_velocity_and_calculate_fee(
                                     seeded, now, amount, overflow_checks) :
                                 seeded \in {SeedOnFirstUse(fee_stats0, now)} } })

\* The runtime writes the account back without looking at the result.
AccountAfterMutant(err, before, after) == after

\* The account after the instruction: the runtime keeps an instruction's
\* writes only when it returns without error.
AccountAfter(err, before, after) == IF err = "Ok" THEN after ELSE before

\* The clock when the behaviours of the model start.
HookEpoch == 1000

\* Before any transfer_hook: no outcome, no transfer counted in any slot.
\* `oldest` remembers, for every ring slot, the time of the oldest transfer
\* that the slot's count includes; `pool` is the pool whose transfer invoked
\* the hook last, `successes` and `volume` count the invocations that
\* returned Ok and add up their amounts, `quiet` counts the latest transfers
\* in a row that found a window of at most ten transfers and drew no burst
\* penalty, `gap` is the time between two transfers once they arrive at a
\* steady pace.
NoHook ==
    [err |-> "none", amount |-> 0, oldest |-> [i \in Slots |-> NoValue],
     steps |-> 0, overflow_checks |-> TRUE, pool |-> "none", successes |-> 0,
     volume |-> 0, quiet |-> 0, gap |-> 0]

\* amm_dex after Initialize: empty vaults, no LP token minted, the pool
\* unlocked (lib.rs passes no `locked`; initialize.rs stores false), and a user
\* who holds UserTokens of each token.
UserTokens == MaxVault + 1

NoDex ==
    [vault_x |-> 0, vault_y |-> 0, lp_supply |-> 0, user_x |-> UserTokens,
     user_y |-> UserTokens, user_lp |-> 0, locked |-> FALSE, last |-> "none",
     amount |-> 0]

\* No instruction is being executed.  `fee_read` is what get_dynamic_fee has
\* returned to the swap being executed.
NoRun ==
    [handler |-> "none", empty |-> FALSE, is_x |-> FALSE,
     parses |-> [m \in {"x", "y"} |-> TRUE], pc |-> 0, issued |-> 0,
     err |-> "none", fee_read |-> NoValue]

----------------------------------------------------------------------------
(* Config account *)

\* self.config.key(): the address of the Config account
ConfigKey == "config"

NoConfig ==
    [seed |-> 0, authority |-> None, mint_x |-> None, mint_y |-> None,
     fee |-> 0, locked |-> FALSE, fee_destination |-> None,
     default_transfer_fee_basis_points |-> 0, default_transfer_fee_max |-> 0,
     fee_withdraw_authority |-> None,
     default_hook_program |-> None]

Init ==
    /\ initialized = FALSE
    /\ config = NoConfig
    /\ vault_x = 0
    /\ vault_y = 0
    /\ lp_supply = 0
    /\ user_lp = [k \in Keys |-> 0]
    /\ \E p \in MintProfiles : ext = [m \in Mints |-> IF m = "mA" THEN p[1] ELSE p[2]]
    /\ last = "none"
    /\ calc = NoCalc
    /\ fee_stats = ZeroStats
    /\ clock = HookEpoch
    /\ hook = NoHook
    /\ run = NoRun
    /\ dex = NoDex

----------------------------------------------------------------------------
(* initialize *)

\* Arguments of the initialize instruction tried by the model.
InitializeInputs ==
    { [admin |-> "k2", fee |-> 0, authority |-> None, bp |-> 50, max |-> 5,
       hook |-> None, mint_x |-> "mA", mint_y |-> "mB", programs_ok |-> TRUE] }
    \cup
    { [admin |-> "k2", fee |-> MaxPoolFee, authority |-> "k1", bp |-> 50, max |-> 5,
       hook |-> h, mint_x |-> "mA", mint_y |-> "mB", programs_ok |-> TRUE] :
        h \in {None, "h1", "h2"} }
    \cup
    { [admin |-> "k2", fee |-> 1001, authority |-> "k1", bp |-> 50, max |-> 5,
       hook |-> None, mint_x |-> "mA", mint_y |-> "mB", programs_ok |-> TRUE],
      [admin |-> "k2", fee |-> 0, authority |-> "k1", bp |-> 10001, max |-> 5,
       hook |-> None, mint_x |-> "mA", mint_y |-> "mB", programs_ok |-> TRUE],
      [admin |-> "k2", fee |-> 0, authority |-> "k1", bp |-> 50, max |-> 5,
       hook |-> None, mint_x |-> "mA", mint_y |-> "mA", programs_ok |-> TRUE],
      [admin |-> "k2", fee |-> 0, authority |-> "k1", bp |-> 50, max |-> 5,
       hook |-> None, mint_x |-> "mA", mint_y |-> "mB", programs_ok |-> FALSE] }

\* require!(fee <= 1000) left out
InitializeFeeInRangeMutant(fee) == TRUE

\* require!(fee <= 1000, InvalidFee)
InitializeFeeInRange(fee) == fee <= MaxPoolFee

\* Initialize::initialize: the error it returns, "Ok" when it succeeds.
InitializeChecks(in) ==
    IF ~InitializeFeeInRange(in.fee) THEN "InvalidFee"
    ELSE IF ~(in.bp <= BasisPoints) THEN "InvalidFee"
    ELSE IF ~in.programs_ok THEN "InvalidTokenProgram"
    ELSE IF ~(in.mint_x # in.mint_y) THEN "IdenticalMints"
    ELSE IF ext[in.mint_x].unsupported \/ ext[in.mint_y].unsupported
         THEN "UnsupportedExtension"
    ELSE "Ok"

\* The Config written by set_inner.
InitialConfig(in) ==
    [seed |-> 1, authority |-> in.authority,
     mint_x |-> in.mint_x, mint_y |-> in.mint_y,
     fee |-> in.fee, locked |-> FALSE,
     fee_destination |-> IF in.authority # None THEN in.authority ELSE in.admin,
     default_transfer_fee_basis_points |-> in.bp,
     default_transfer_fee_max |-> in.max,
     fee_withdraw_authority |-> ConfigKey,
     default_hook_program |-> in.hook]

\* `init` that accepts an account that exists
ConfigInitConstraintMutant(exists) == TRUE

\* #[account(init, ...)] config: the account must not exist yet.
ConfigInitConstraint(exists) == ~exists

\* The whole instruction: the `init` constraint on config fails when the
\* account already exists, then the handler runs.
InitializeResult(in) ==
    IF ~ConfigInitConstraint(initialized)
    THEN "AccountAlreadyInUse"
    ELSE InitializeChecks(in)

Initialize ==
    \E in \in InitializeInputs :
        /\ InitializeResult(in) = "Ok"
        /\ initialized' = TRUE
        /\ config' = InitialConfig(in)
        /\ last' = "initialize"
        /\ UNCHANGED <<vault_x, vault_y, lp_supply, user_lp, ext, calc, hook_vars, run, dex>>

----------------------------------------------------------------------------
(* lock / unlock / update_* *)

\* Whether the accounts struct declares config `mut`: Anchor writes an
\* account back at the end of the instruction only when it is.
UpdateConfigIsMut == TRUE
CollectFeesConfigIsMut == FALSE

\* AccountsExit: the stored account after a handler that left `in_memory`.
AccountsExit(is_mut, stored, in_memory) == IF is_mut THEN in_memory ELSE stored

\* Faulty variant: lock without the authority check.
LockAuthorityCheckMutant(cfg, user) == TRUE

\* require!(self.config.authority == Some(self.user.key()), InvalidAuthority)
LockAuthorityCheck(cfg, user) == cfg.authority = user

UnlockAuthorityCheck(cfg, user) == cfg.authority = user

\* constraint = config.authority == Some(authority.key()) @ InvalidAuthority
CollectFeesAuthorityConstraint(cfg, authority) == cfg.authority = authority

\* Update::lock
LockResult(user) ==
    IF ~LockAuthorityCheck(config, user)
    THEN [err |-> "InvalidAuthority", config |-> config]
    ELSE [err |-> "Ok",
          config |-> AccountsExit(UpdateConfigIsMut, config,
                                  [config EXCEPT !.locked = TRUE])]

\* Update::unlock
UnlockResult(user) ==
    IF ~UnlockAuthorityCheck(config, user)
    THEN [err |-> "InvalidAuthority", config |-> config]
    ELSE [err |-> "Ok",
          config |-> AccountsExit(UpdateConfigIsMut, config,
                                  [config EXCEPT !.locked = FALSE])]

\* CollectFees::collect_fees on `sources` token accounts.  The token program
\* (withdraw_withheld_tokens_from_accounts) moves the fees withheld on them
\* to fee_destination, or refuses (cpi_ok); withheld fees are not part of a
\* token account's amount.
CollectFeesResult(authority, sources, cpi_ok) ==
    IF ~CollectFeesAuthorityConstraint(config, authority)
    THEN [err |-> "InvalidAuthority", config |-> config]
    ELSE IF ~(sources # 0)
    THEN [err |-> "InvalidAmount", config |-> config]
    ELSE IF ~(config.fee_withdraw_authority = ConfigKey)
    THEN [err |-> "InvalidAuthority", config |-> config]
    ELSE IF ~cpi_ok
    THEN [err |-> "TokenProgramError", config |-> config]
    ELSE [err |-> "Ok",
          config |-> AccountsExit(CollectFeesConfigIsMut, config, config)]

\* CollectFees::update_transfer_fee_config
UpdateTransferFeeConfigResult(authority, new_fee_basis_points, new_max_fee) ==
    IF ~CollectFeesAuthorityConstraint(config, authority)
    THEN [err |-> "InvalidAuthority", config |-> config]
    ELSE IF ~(new_fee_basis_points <= BasisPoints)
    THEN [err |-> "InvalidFee", config |-> config]
    ELSE [err |-> "Ok",
          config |-> AccountsExit(CollectFeesConfigIsMut, config,
              [config EXCEPT
                  !.default_transfer_fee_basis_points = new_fee_basis_points,
                  !.default_transfer_fee_max = new_max_fee])]

\* CollectFees::update_fee_destination
UpdateFeeDestinationResult(authority, new_destination) ==
    IF ~CollectFeesAuthorityConstraint(config, authority)
    THEN [err |-> "InvalidAuthority", config |-> config]
    ELSE [err |-> "Ok",
          config |-> AccountsExit(CollectFeesConfigIsMut, config,
              [config EXCEPT !.fee_destination = new_destination])]

\* CollectFees::update_hook_program
UpdateHookProgramResult(authority, new_hook_program) ==
    IF ~CollectFeesAuthorityConstraint(config, authority)
    THEN [err |-> "InvalidAuthority", config |-> config]
    ELSE [err |-> "Ok",
          config |-> AccountsExit(CollectFeesConfigIsMut, config,
              [config EXCEPT !.default_hook_program = new_hook_program])]

\* An administrative instruction `op` that returned `r` without error.
AdminStep(op, r) ==
    /\ initialized
    /\ r.err = "Ok"
    /\ config' = r.config
    /\ last' = op
    /\ UNCHANGED <<initialized, vault_x, vault_y, lp_supply, user_lp, ext, calc, hook_vars, run, dex>>

LockStep(user) == AdminStep("lock", LockResult(user))
UnlockStep(user) == AdminStep("unlock", UnlockResult(user))

Lock == \E user \in Keys : LockStep(user)

Unlock == \E user \in Keys : UnlockStep(user)

\* remaining_accounts.len() of collect_fees
SourceCounts == {0, 1}

CollectFeesStep(authority, sources, cpi_ok) ==
    AdminStep("collect_fees", CollectFeesResult(authority, sources, cpi_ok))

CollectFees ==
    \E authority \in Keys, sources \in SourceCounts, cpi_ok \in BOOLEAN :
        CollectFeesStep(authority, sources, cpi_ok)

\* Arguments of the update_* instructions tried by the model.
NewFeeBasisPoints == {100, 10001}
NewMaxFees == {7}
NewHookPrograms == {None, "h1"}

UpdateTransferFeeConfigStep(authority, new_bp, new_max) ==
    AdminStep("update_transfer_fee_config",
              UpdateTransferFeeConfigResult(authority, new_bp, new_max))

UpdateFeeDestinationStep(authority, new_destination) ==
    AdminStep("update_fee_destination",
              UpdateFeeDestinationResult(authority, new_destination))

UpdateHookProgramStep(authority, new_hook_program) ==
    AdminStep("update_hook_program",
              UpdateHookProgramResult(authority, new_hook_program))

UpdateTransferFeeConfig ==
    \E authority \in Keys, new_bp \in NewFeeBasisPoints, new_max \in NewMaxFees :
        UpdateTransferFeeConfigStep(authority, new_bp, new_max)

UpdateFeeDestination ==
    \E authority \in Keys, new_destination \in Keys :
        UpdateFeeDestinationStep(authority, new_destination)

UpdateHookProgram ==
    \E authority \in Keys, new_hook_program \in NewHookPrograms :
        UpdateHookProgramStep(authority, new_hook_program)

----------------------------------------------------------------------------
(* deposit *)

\* Arguments tried by the model; a call with the two mint accounts exchanged
\* is tried once.
DepositInputs ==
    { [user |-> u, amount |-> a, max_x |-> mx, max_y |-> my,
       mint_x |-> "mA", mint_y |-> "mB"] :
        u \in Depositors, a \in Shares, mx \in Amounts, my \in Amounts }
    \cup
    { [user |-> "k2", amount |-> 1, max_x |-> MaxAmount, max_y |-> MaxAmount,
       mint_x |-> "mB", mint_y |-> "mA"] }

\* Faulty variant: the net maxima are not required to be positive.
DepositNetMaxPositiveMutant(net_max_x, net_max_y) == TRUE

\* require!(net_max_x > 0 && net_max_y > 0, InvalidAmount)
DepositNetMaxPositive(net_max_x, net_max_y) == net_max_x > 0 /\ net_max_y > 0

\* Faulty variant: the gross amounts are not compared with the maxima.
DepositGrossWithinMaxMutant(gross_x, gross_y, max_x, max_y) == TRUE

\* require!(gross_x <= max_x && gross_y <= max_y, SlippageExceeded)
DepositGrossWithinMax(gross_x, gross_y, max_x, max_y) ==
    gross_x <= max_x /\ gross_y <= max_y

\* Deposit::deposit: the error it returns ("Ok" when every check passes), the
\* amounts (x, y) the vaults are to receive, the gross amounts it transfers
\* from the user, and the balances after the transfers and the mint.
DepositResult(in) ==
    LET ex == ext[in.mint_x]
        ey == ext[in.mint_y]
        x_transfer_fee == calculate_fee(ex, in.max_x)
        y_transfer_fee == calculate_fee(ey, in.max_y)
        net_max_x == saturating_sub(in.max_x, x_transfer_fee)
        net_max_y == saturating_sub(in.max_y, y_transfer_fee)
        empty == lp_supply = 0 /\ vault_x = 0 /\ vault_y = 0
        amounts == xy_deposit_amounts_from_l(vault_x, vault_y, lp_supply, in.amount)
        x == IF empty THEN net_max_x ELSE amounts.x
        y == IF empty THEN net_max_y ELSE amounts.y
        gross_x == calculate_gross_for_net(ex, x)
        gross_y == calculate_gross_for_net(ey, y)
        e == IF ~(config.locked = FALSE) THEN "PoolLocked"
             ELSE IF ~(in.amount > 0) THEN "InvalidAmount"
             ELSE IF ~(config.mint_x = in.mint_x) THEN "InvalidToken"
             ELSE IF ~(config.mint_y = in.mint_y) THEN "InvalidToken"
             ELSE IF ~DepositNetMaxPositive(net_max_x, net_max_y) THEN "InvalidAmount"
             ELSE IF ~empty /\ ~amounts.ok THEN "MathOverflow"
             ELSE IF ~empty /\ ~(amounts.x <= net_max_x /\ amounts.y <= net_max_y)
                  THEN "SlippageExceeded"
             ELSE IF calculate_gross_for_net_panics(ex)
                     \/ calculate_gross_for_net_panics(ey)
                  THEN "ProgramFailedToComplete"
             ELSE IF ~DepositGrossWithinMax(gross_x, gross_y, in.max_x, in.max_y)
                  THEN "SlippageExceeded"
             ELSE "Ok"
    IN  [err |-> e, x |-> x, y |-> y, gross_x |-> gross_x, gross_y |-> gross_y,
         net_max_x |-> net_max_x, net_max_y |-> net_max_y, empty |-> empty,
         \* deposit_tokens(true, gross_x); deposit_tokens(false, gross_y)
         vault_x |-> vault_x + TransferReceived(ex, gross_x),
         vault_y |-> vault_y + TransferReceived(ey, gross_y),
         \* mint_lp_tokens(amount)
         lp_supply |-> lp_supply + in.amount,
         user_lp |-> [user_lp EXCEPT ![in.user] = @ + in.amount]]

\* A deposit that succeeds.  (The token program may still reject a transfer
\* or the mint, when the user's balance is too low or a hook fails: the
\* instruction then returns that error and is rolled back like any other.)
DepositStep(in) ==
    LET r == DepositResult(in)
    IN  /\ initialized
        /\ r.err = "Ok"
        /\ r.vault_x <= MaxVault
        /\ r.vault_y <= MaxVault
        /\ r.lp_supply <= MaxSupply
        /\ vault_x' = r.vault_x
        /\ vault_y' = r.vault_y
        /\ lp_supply' = r.lp_supply
        /\ user_lp' = r.user_lp
        /\ last' = "deposit"
        /\ UNCHANGED <<initialized, config, ext, calc, hook_vars, run, dex>>

Deposit == \E in \in DepositInputs : DepositStep(in)

----------------------------------------------------------------------------
(* withdraw *)

WithdrawInputs ==
    { [user |-> u, amount |-> a, min_x |-> mx, min_y |-> my,
       mint_x |-> "mA", mint_y |-> "mB"] :
        u \in Keys, a \in Shares, mx \in Amounts, my \in Amounts }
    \cup
    { [user |-> "k2", amount |-> 1, min_x |-> 0, min_y |-> 0,
       mint_x |-> "mB", mint_y |-> "mA"] }

\* Faulty variant: the net amount is sent, the fee stays in the vault.
WithdrawTransferAmountMutant(amount, net) == net

\* The amount handed to withdraw_tokens: the curve amount (the token type
\* deducts its fee from it on the way out).
WithdrawTransferAmount(amount, net) == amount

\* Faulty variant: the caller's share balance is not checked.
WithdrawHasSharesMutant(balance, amount) == TRUE

\* require!(self.user_lp.amount >= amount, InsufficientFunds)
WithdrawHasShares(balance, amount) == balance >= amount

\* Faulty variant: the minimum is compared with the gross vault debit.
WithdrawSlippageAmountMutant(amount, net) == amount

\* The amount compared with the minimum: require!(net_x >= min_x && net_y >= min_y)
WithdrawSlippageAmount(amount, net) == net

\* Faulty variant: the share supply is read as it will be after the burn.
WithdrawCurveSupplyMutant(supply, amount) == supply - amount

\* The share supply handed to the curve: self.mint_lp.supply
WithdrawCurveSupply(supply, amount) == supply

\* Withdraw::withdraw on a pool with vault balances vx, vy, share supply
\* `supply` and share balances `lp`: the error it returns, the amounts debited
\* from the vaults, what the user receives, and the balances after the
\* transfers and the burn.
WithdrawOn(vx, vy, supply, lp, in) ==
    LET ex == ext[in.mint_x]
        ey == ext[in.mint_y]
        amounts == xy_withdraw_amounts_from_l(
                       vx, vy, WithdrawCurveSupply(supply, in.amount), in.amount)
        x_transfer_fee == calculate_fee(ex, amounts.x)
        y_transfer_fee == calculate_fee(ey, amounts.y)
        net_x == saturating_sub(amounts.x, x_transfer_fee)
        net_y == saturating_sub(amounts.y, y_transfer_fee)
        send_x == WithdrawTransferAmount(amounts.x, net_x)
        send_y == WithdrawTransferAmount(amounts.y, net_y)
        e == IF ~(in.amount > 0) THEN "InvalidAmount"
             ELSE IF ~WithdrawHasShares(lp[in.user], in.amount) THEN "InsufficientFunds"
             ELSE IF ~(config.mint_x = in.mint_x) THEN "InvalidToken"
             ELSE IF ~(config.mint_y = in.mint_y) THEN "InvalidToken"
             ELSE IF ~amounts.ok THEN "MathOverflow"
             ELSE IF ~(/\ WithdrawSlippageAmount(amounts.x, net_x) >= in.min_x
                       /\ WithdrawSlippageAmount(amounts.y, net_y) >= in.min_y)
                  THEN "SlippageExceeded"
             ELSE IF ~(vx >= amounts.x /\ vy >= amounts.y)
                  THEN "InsufficientFunds"
             ELSE "Ok"
    IN  [err |-> e, x |-> amounts.x, y |-> amounts.y,
         \* withdraw_tokens(true, amounts.x); withdraw_tokens(false, amounts.y)
         vault_x |-> vx - send_x,
         vault_y |-> vy - send_y,
         user_gets_x |-> TransferReceived(ex, send_x),
         user_gets_y |-> TransferReceived(ey, send_y),
         \* burn_lp_tokens(amount)
         lp_supply |-> supply - in.amount,
         user_lp |-> [lp EXCEPT ![in.user] = @ - in.amount]]

\* Withdraw::withdraw on the pool as it is.
WithdrawResult(in) == WithdrawOn(vault_x, vault_y, lp_supply, user_lp, in)

WithdrawStep(in) ==
    LET r == WithdrawResult(in)
    IN  /\ initialized
        /\ r.err = "Ok"
        /\ vault_x' = r.vault_x
        /\ vault_y' = r.vault_y
        /\ lp_supply' = r.lp_supply
        /\ user_lp' = r.user_lp
        /\ last' = "withdraw"
        /\ UNCHANGED <<initialized, config, ext, calc, hook_vars, run, dex>>

Withdraw == \E in \in WithdrawInputs : WithdrawStep(in)

----------------------------------------------------------------------------
(* swap *)

\* `fee_stats` is what parse_dynamic_fee_stats reads from remaining_accounts[7],
\* an account the caller chooses: NoValue when fewer than 8 accounts are
\* passed or the account does not parse.
SwapInputs ==
    { [user |-> "k2", is_x |-> d, amount |-> a, min |-> m,
       fee_stats |-> f, mint_x |-> "mA", mint_y |-> "mB"] :
        d \in BOOLEAN, a \in Amounts, m \in Amounts,
        f \in {NoValue, Some(300)} }
    \cup
    { [user |-> "k2", is_x |-> TRUE, amount |-> 1, min |-> 0,
       fee_stats |-> NoValue, mint_x |-> "mB", mint_y |-> "mA"] }

\* Swap::get_dynamic_fee
get_dynamic_fee(cfg, x_extensions, y_extensions, fee_stats_view) ==
    LET hook_program_id ==
            IF x_extensions.has_transfer_hook
            THEN x_extensions.transfer_hook_program_id
            ELSE IF y_extensions.has_transfer_hook
                 THEN y_extensions.transfer_hook_program_id
                 ELSE None
    IN  IF hook_program_id = None THEN NoValue
        ELSE IF cfg.default_hook_program # None
                /\ hook_program_id # cfg.default_hook_program
             THEN NoValue
        ELSE fee_stats_view

\* Faulty variant: the gross amount is fed to the curve.
SwapNetAmountInMutant(amount, input_fee) == amount

\* let net_amount_in = amount.saturating_sub(input_fee)
SwapNetAmountIn(amount, input_fee) == saturating_sub(amount, input_fee)

\* Faulty variant: no minimum is handed to the curve.
SwapCurveMinMutant(min) == 0

\* The minimum handed to curve.swap: curve.swap(p, net_amount_in, min)
SwapCurveMin(min) == min

\* Faulty variant: the vault balance is not checked.
SwapVaultCoversMutant(gross_output, vault_balance) == TRUE

\* require!(gross_output <= vault_balance, InsufficientFunds)
SwapVaultCovers(gross_output, vault_balance) == gross_output <= vault_balance

\* Swap::swap: the error it returns, the amount fed to the curve, the fee
\* used, the curve's output, the gross amount debited from the output vault,
\* what the user receives, and the vault balances after the two transfers.
SwapResult(in) ==
    LET input_ext == IF in.is_x THEN ext[in.mint_x] ELSE ext[in.mint_y]
        output_ext == IF in.is_x THEN ext[in.mint_y] ELSE ext[in.mint_x]
        input_fee == calculate_fee(input_ext, in.amount)
        net_amount_in == SwapNetAmountIn(in.amount, input_fee)
        read == get_dynamic_fee(config, ext[in.mint_x], ext[in.mint_y], in.fee_stats)
        dynamic_fee == IF read = NoValue THEN config.fee ELSE read[1]
        reserve_in == IF in.is_x THEN vault_x ELSE vault_y
        reserve_out == IF in.is_x THEN vault_y ELSE vault_x
        res == IF CurveInitOk(vault_x, vault_y)
               THEN CurveSwap(reserve_in, reserve_out, net_amount_in,
                              SwapCurveMin(in.min), dynamic_fee)
               ELSE [ok |-> FALSE, withdraw |-> 0]
        gross_output == calculate_gross_for_net(output_ext, res.withdraw)
        vault_balance == IF in.is_x THEN vault_y ELSE vault_x
        \* deposit_tokens(is_x, amount): the vault receives the amount less the
        \* input token's transfer fee
        received == TransferReceived(input_ext, in.amount)
        e == IF ~(config.mint_x = in.mint_x) THEN "InvalidToken"
             ELSE IF ~(config.mint_y = in.mint_y) THEN "InvalidToken"
             ELSE IF ~(net_amount_in > 0) THEN "InvalidAmount"
             ELSE IF ~CurveInitOk(vault_x, vault_y) THEN "MathOverflow"
             ELSE IF ~res.ok THEN "SlippageExceeded"
             ELSE IF calculate_gross_for_net_panics(output_ext)
                  THEN "ProgramFailedToComplete"
             ELSE IF ~SwapVaultCovers(gross_output, vault_balance)
                  THEN "InsufficientFunds"
             ELSE "Ok"
    IN  [err |-> e, net_amount_in |-> net_amount_in, dynamic_fee |-> dynamic_fee,
         withdraw |-> res.withdraw, gross_output |-> gross_output,
         received |-> received,
         \* withdraw_tokens(!is_x, gross_output): the user receives the gross
         \* output less the output token's transfer fee
         user_gets |-> TransferReceived(output_ext, gross_output),
         vault_x |-> IF in.is_x THEN vault_x + received
                                ELSE vault_x - gross_output,
         vault_y |-> IF in.is_x THEN vault_y - gross_output
                                ELSE vault_y + received]

SwapStep(in) ==
    LET r == SwapResult(in)
    IN  /\ initialized
        /\ r.err = "Ok"
        /\ r.vault_x <= MaxVault
        /\ r.vault_y <= MaxVault
        /\ vault_x' = r.vault_x
        /\ vault_y' = r.vault_y
        /\ last' = "swap"
        /\ UNCHANGED <<initialized, config, lp_supply, user_lp, ext, calc, hook_vars, run, dex>>

Swap == \E in \in SwapInputs : SwapStep(in)

----------------------------------------------------------------------------
(* Next-state relation *)

Next ==
    \/ Initialize
    \/ Lock
    \/ Unlock
    \/ CollectFees
    \/ UpdateTransferFeeConfig
    \/ UpdateFeeDestination
    \/ UpdateHookProgram
    \/ Deposit
    \/ Withdraw
    \/ Swap

Spec == Init /\ [][Next]_vars

----------------------------------------------------------------------------
(* The fee functions of token_utils on their own: a behaviour is one call   *)
(* of one function on a mint account and an amount.                         *)

FeeInit ==
    /\ initialized = FALSE
    /\ config = NoConfig
    /\ vault_x = 0
    /\ vault_y = 0
    /\ lp_supply = 0
    /\ user_lp = [k \in Keys |-> 0]
    /\ ext = [m \in Mints |-> Plain]
    /\ last = "none"
    /\ \E m \in MintAccounts, a \in 0..U64Max :
           calc = [NoCalc EXCEPT !.fn = "input", !.mint = m, !.amount = a]
    /\ fee_stats = ZeroStats
    /\ clock = HookEpoch
    /\ hook = NoHook
    /\ run = NoRun
    /\ dex = NoDex

Returns(fn, out, panicked) ==
    /\ calc.fn = "input"
    /\ calc' = [calc EXCEPT !.fn = fn, !.out = out, !.panicked = panicked]
    /\ UNCHANGED <<initialized, config, vault_x, vault_y, lp_supply, user_lp,
                   ext, last, hook_vars, run, dex>>

CalculateTransferFee ==
    /\ calc.mint.has_transfer_fee_extension
    /\ Returns("calculate_transfer_fee",
               calculate_transfer_fee(calc.amount, get_transfer_fee_config(calc.mint)),
               FALSE)

CalculateGrossAmount ==
    /\ calc.mint.has_transfer_fee_extension
    /\ Returns("calculate_gross_amount",
               calculate_gross_amount(calc.amount, get_transfer_fee_config(calc.mint)),
               /\ calc.mint.transfer_fee_basis_points # 0
               /\ GrossDivisorIsZero(calc.mint.transfer_fee_basis_points))

CalculateNetAmount ==
    /\ calc.mint.has_transfer_fee_extension
    /\ Returns("calculate_net_amount",
               calculate_net_amount(calc.amount, get_transfer_fee_config(calc.mint)),
               FALSE)

CalculateFee ==
    Returns("calculate_fee",
            calculate_fee(create_extensions(calc.mint), calc.amount), FALSE)

CalculateGrossForNet ==
    Returns("calculate_gross_for_net",
            calculate_gross_for_net(create_extensions(calc.mint), calc.amount),
            calculate_gross_for_net_panics(create_extensions(calc.mint)))

CalculateFeeDirect ==
    Returns("calculate_fee_direct", calculate_fee_direct(calc.mint, calc.amount),
            FALSE)

CalculateGrossForNetDirect ==
    Returns("calculate_gross_for_net_direct",
            calculate_gross_for_net_direct(calc.mint, calc.amount),
            /\ calc.mint.is_token_2022
            /\ calc.mint.has_transfer_fee_extension
            /\ calc.mint.transfer_fee_basis_points # 0
            /\ GrossDivisorIsZero(calc.mint.transfer_fee_basis_points))

FeeNext ==
    \/ CalculateTransferFee
    \/ CalculateGrossAmount
    \/ CalculateNetAmount
    \/ CalculateFee
    \/ CalculateGrossForNet
    \/ CalculateFeeDirect
    \/ CalculateGrossForNetDirect

FeeSpec == FeeInit /\ [][FeeNext]_vars

----------------------------------------------------------------------------
(* The dynamic_fee_hook program on its own: a behaviour is a sequence of    *)
(* transfer_hook invocations at increasing times.  It opens with a burst:   *)
(* transfers of one amount at one instant; after a burst of one of the      *)
(* sizes in BurstSizes come a few invocations with any of the inputs.       *)

MaxBurst == 138        \* transfers of the opening burst
MaxHookSteps == 2      \* transfer_hook invocations after the opening burst
MaxElapsed == 420      \* seconds of clock covered after the opening burst

BurstSizes == {0, 1, 10, 11, 60, 121, 130, 138}
BurstAmount == 1
TimeSteps == {0, 59, 60, 119, 359, 360}
HookAmounts == {0, 1, 11, U64Max}

\* The pools whose vaults hold the hooked token: a transfer of any of them
\* invokes the hook on the one fee_stats account (seeds [b"fee_stats"]).
Pools == {"p1", "p2"}

HookInit ==
    /\ initialized = FALSE
    /\ config = NoConfig
    /\ vault_x = 0
    /\ vault_y = 0
    /\ lp_supply = 0
    /\ user_lp = [k \in Keys |-> 0]
    /\ ext = [m \in Mints |-> Plain]
    /\ last = "none"
    /\ calc = NoCalc
    /\ fee_stats = ZeroStats
    /\ clock = HookEpoch
    /\ \E overflow_checks \in BOOLEAN :
           hook = [NoHook EXCEPT !.overflow_checks = overflow_checks]
    /\ run = NoRun
    /\ dex = NoDex

\* The ring slots a transfer at `now` advances into.
SlotsAdvanced(before, now) ==
    IF before.total_transfers = 0
    THEN {}
    ELSE { (before.current_minute_slot + k) % RingSize :
              k \in 1..WindowsToAdvance(now - before.last_update_timestamp) }

\* History: the oldest transfer each slot counts, after a transfer at `now`.
Oldest(old, before, after, now) ==
    [i \in Slots |->
        IF after.recent_transfers[i] = 0 THEN NoValue
        ELSE IF i = after.current_minute_slot
                /\ (old[i] = NoValue \/ i \in SlotsAdvanced(before, now))
             THEN Some(now)
        ELSE old[i]]

\* A transfer of the opening burst.
InBurst(dt, amount, transferring) ==
    /\ hook.steps = 0
    /\ fee_stats.total_transfers < MaxBurst
    /\ dt = 0
    /\ amount = BurstAmount
    /\ transferring

\* An invocation after the opening burst.
AfterBurst ==
    /\ hook.steps > 0 \/ fee_stats.total_transfers \in BurstSizes
    /\ hook.steps < MaxHookSteps

TransferHookStep(pool, dt, amount, transferring) ==
    /\ InBurst(dt, amount, transferring) \/ AfterBurst
    /\ clock + dt <= HookEpoch + MaxElapsed
    /\ LET now == clock + dt
           r == transfer_hook(fee_stats, now, amount, transferring,
                              hook.overflow_checks)
       IN  /\ clock' = now
           /\ fee_stats' = AccountAfter(r.err, fee_stats, r.fee_stats)
           /\ hook' = [hook EXCEPT
                          !.err = r.err,
                          !.amount = amount,
                          !.pool = pool,
                          !.successes = IF r.err = "Ok" THEN @ + 1 ELSE @,
                          !.volume = IF r.err = "Ok" THEN @ + amount ELSE @,
                          !.steps = IF InBurst(dt, amount, transferring)
                                    THEN @ ELSE @ + 1,
                          !.oldest = IF r.err = "Ok"
                                     THEN Oldest(@, fee_stats, r.fee_stats, now)
                                     ELSE @]
    /\ UNCHANGED <<initialized, config, vault_x, vault_y, lp_supply, user_lp,
                   ext, last, calc, run, dex>>

TransferHook ==
    \E pool \in Pools, dt \in TimeSteps, amount \in HookAmounts,
       transferring \in BOOLEAN :
        TransferHookStep(pool, dt, amount, transferring)

HookNext == TransferHook

HookSpec == HookInit /\ [][HookNext]_vars

----------------------------------------------------------------------------
(* Properties.  A property of "every invocation" is stated at every        *)
(* reachable state over every argument record the model tries.             *)

\* The input-side and output-side token types and vault balances of a swap.
InputExt(in) == IF in.is_x THEN ext[in.mint_x] ELSE ext[in.mint_y]
OutputExt(in) == IF in.is_x THEN ext[in.mint_y] ELSE ext[in.mint_x]
InputVault(in, vx, vy) == IF in.is_x THEN vx ELSE vy
OutputVault(in, vx, vy) == IF in.is_x THEN vy ELSE vx

\* C1: while the pool is locked every deposit, withdraw and swap fails with
\* PoolLocked and changes no vault balance and no share supply.  A failed
\* invocation changes nothing, so under the claim no step taken from a locked
\* pool changes a vault balance or the share supply.
C1_LockedPoolIsFrozen ==
    [][config.locked =>
          /\ vault_x' = vault_x
          /\ vault_y' = vault_y
          /\ lp_supply' = lp_supply]_vars

\* C2: for every successful swap the product of the two vault balances after
\* the swap is greater than or equal to the product before it.
C2_SwapNeverDecreasesProduct ==
    initialized =>
        \A in \in SwapInputs :
            LET r == SwapResult(in)
            IN  r.err = "Ok" => r.vault_x * r.vault_y >= vault_x * vault_y

\* The administrative fields of the pool.
AdminFields(cfg) ==
    <<cfg.locked, cfg.fee_destination, cfg.default_hook_program,
      cfg.default_transfer_fee_basis_points, cfg.default_transfer_fee_max>>

\* What an administrative instruction returns to a caller it refuses.
Refused == [err |-> "InvalidAuthority", config |-> config]

\* C3: the administrative fields (locked, fee_destination,
\* default_hook_program, default transfer-fee bp/max) change only in an
\* operation signed by the pool's authority; any other caller gets
\* InvalidAuthority and the fields stay unchanged; a pool initialized with
\* authority = None is never locked or reconfigured.
C3_AdminOnlyByAuthority ==
    /\ [](initialized =>
            \A user \in Keys :
                user # config.authority =>
                    /\ LockResult(user) = Refused
                    /\ UnlockResult(user) = Refused
                    /\ \A bp \in NewFeeBasisPoints, mx \in NewMaxFees :
                           UpdateTransferFeeConfigResult(user, bp, mx) = Refused
                    /\ \A d \in Keys : UpdateFeeDestinationResult(user, d) = Refused
                    /\ \A h \in NewHookPrograms :
                           UpdateHookProgramResult(user, h) = Refused)
    /\ [][initialized /\ AdminFields(config') # AdminFields(config) =>
            /\ config.authority \in Keys
            /\ \/ LockStep(config.authority)
               \/ UnlockStep(config.authority)
               \/ \E bp \in NewFeeBasisPoints, mx \in NewMaxFees :
                      UpdateTransferFeeConfigStep(config.authority, bp, mx)
               \/ \E d \in Keys : UpdateFeeDestinationStep(config.authority, d)
               \/ \E h \in NewHookPrograms :
                      UpdateHookProgramStep(config.authority, h)]_vars
    /\ [][initialized /\ config.authority = None =>
            /\ config'.authority = None
            /\ AdminFields(config') = AdminFields(config)
            /\ ~config'.locked]_vars

\* C3 witness: the authority has locked the pool, and the other key is refused.
C3_Witness ==
    /\ initialized
    /\ last = "lock"
    /\ config.locked
    /\ config.authority = "k1"
    /\ LockResult("k2").err = "InvalidAuthority"
    /\ UnlockResult("k2").err = "InvalidAuthority"

\* The checks of swap that precede the call of the curve all pass.
SwapReachesCurve(r) ==
    r.err \notin {"InvalidToken", "InvalidAmount", "MathOverflow"}

C5_CurveFedNetInput ==
    initialized =>
        \A in \in SwapInputs :
            LET r == SwapResult(in)
            IN  /\ r.net_amount_in
                       = saturating_sub(in.amount, calculate_fee(InputExt(in), in.amount))
                /\ r.err = "Ok" =>
                       InputVault(in, r.vault_x, r.vault_y)
                           = InputVault(in, vault_x, vault_y) + r.net_amount_in

\* C5 witness: after a swap, a swap whose input token withholds a positive
\* fee succeeds.
C5_Witness ==
    /\ initialized
    /\ last = "swap"
    /\ \E in \in SwapInputs :
           /\ calculate_fee(InputExt(in), in.amount) > 0
           /\ SwapResult(in).err = "Ok"

\* C6: a swap fails with InsufficientFunds when gross_for_net(curve output)
\* exceeds the output-side vault balance, a withdraw fails with
\* InsufficientFunds when a computed amount exceeds its vault, and no vault
\* balance is ever below zero.
C6_VaultsNeverOverdrawn ==
    /\ vault_x >= 0
    /\ vault_y >= 0
    /\ initialized =>
        /\ \A in \in SwapInputs :
               LET r == SwapResult(in)
               IN  /\ (/\ SwapReachesCurve(r)
                       /\ r.err # "SlippageExceeded"
                       /\ calculate_gross_for_net(OutputExt(in), r.withdraw)
                              > OutputVault(in, vault_x, vault_y))
                          => r.err = "InsufficientFunds"
                   /\ r.err = "Ok" => (r.vault_x >= 0 /\ r.vault_y >= 0)
        /\ \A in \in WithdrawInputs :
               LET r == WithdrawResult(in)
               IN  /\ (/\ r.err \notin {"InvalidAmount", "InvalidToken",
                                        "MathOverflow", "SlippageExceeded"}
                       /\ (r.x > vault_x \/ r.y > vault_y))
                          => r.err = "InsufficientFunds"
                   /\ r.err = "Ok" => (r.vault_x >= 0 /\ r.vault_y >= 0)

\* C6 witness: after a swap, a swap whose gross output exceeds the output
\* vault is refused with InsufficientFunds.
C6_Witness ==
    /\ initialized
    /\ last = "swap"
    /\ \E in \in SwapInputs :
           LET r == SwapResult(in)
           IN  /\ r.gross_output > OutputVault(in, vault_x, vault_y)
               /\ r.err = "InsufficientFunds"

\* C7: share supply = 0 implies both vault balances = 0.
C7_NoSupplyNoReserves ==
    lp_supply = 0 => (vault_x = 0 /\ vault_y = 0)

\* C7 witness: the last shares of a pool whose tokens carry a transfer fee
\* have been withdrawn.
C7_Witness ==
    /\ initialized
    /\ last = "withdraw"
    /\ lp_supply = 0
    /\ ext["mB"].has_transfer_fee

\* The pool is empty: no shares and nothing in the vaults.
EmptyPool == lp_supply = 0 /\ vault_x = 0 /\ vault_y = 0

\* C8: a deposit into an empty pool, with any max_x, max_y whose net amounts
\* are non-zero and any transfer-fee rate and cap, succeeds, credits the
\* vaults exactly max_x - fee(max_x) and max_y - fee(max_y) and mints the
\* requested shares.
C8_EmptyPoolDepositSeeds ==
    (initialized /\ ~config.locked /\ EmptyPool) =>
        \A in \in DepositInputs :
            LET r == DepositResult(in)
                net_x == in.max_x - calculate_fee(ext[in.mint_x], in.max_x)
                net_y == in.max_y - calculate_fee(ext[in.mint_y], in.max_y)
            IN  (/\ in.amount > 0
                 /\ in.mint_x = config.mint_x
                 /\ in.mint_y = config.mint_y
                 /\ net_x > 0
                 /\ net_y > 0)
                => /\ r.err = "Ok"
                   /\ r.vault_x = net_x
                   /\ r.vault_y = net_y
                   /\ r.lp_supply = in.amount

\* The checks of deposit that precede the slippage checks all pass.
DepositReachesSlippage(r) ==
    r.err \notin {"PoolLocked", "InvalidAmount", "InvalidToken", "MathOverflow"}

\* C9: a deposit into a non-empty pool fails with SlippageExceeded when the
\* curve-required amount of either token exceeds max - fee(max); on success
\* the user is debited at most max_x and max_y and exactly the requested
\* shares are minted.  (On failure the instruction is rolled back.)
C9_DepositHonoursMax ==
    (initialized /\ ~EmptyPool) =>
        \A in \in DepositInputs :
            LET r == DepositResult(in)
                net_x == in.max_x - calculate_fee(ext[in.mint_x], in.max_x)
                net_y == in.max_y - calculate_fee(ext[in.mint_y], in.max_y)
            IN  /\ (DepositReachesSlippage(r) /\ (r.x > net_x \/ r.y > net_y))
                       => r.err = "SlippageExceeded"
                /\ r.err = "Ok" =>
                       /\ r.gross_x <= in.max_x
                       /\ r.gross_y <= in.max_y
                       /\ r.lp_supply = lp_supply + in.amount
                       /\ r.user_lp[in.user] = user_lp[in.user] + in.amount
                       /\ \A k \in Keys \ {in.user} : r.user_lp[k] = user_lp[k]

\* C9 witness: after a deposit into a non-empty pool, one deposit is refused
\* because the curve amount exceeds the net maximum and another succeeds.
C9_Witness ==
    /\ initialized
    /\ last = "deposit"
    /\ lp_supply > MaxShares
    /\ \E in \in DepositInputs :
           LET r == DepositResult(in)
           IN  /\ r.x > in.max_x - calculate_fee(ext[in.mint_x], in.max_x)
               /\ r.err = "SlippageExceeded"
    /\ \E in \in DepositInputs :
           LET r == DepositResult(in)
           IN  r.err = "Ok" /\ r.gross_x > 0

\* C10: for every successful deposit of s > 0 shares into a non-empty pool
\* with reserves (rx, ry) and supply S, the amounts x, y credited to the
\* vaults satisfy x * S >= s * rx and y * S >= s * ry.
C10_DepositBacksShares ==
    (initialized /\ ~EmptyPool) =>
        \A in \in DepositInputs :
            LET r == DepositResult(in)
            IN  r.err = "Ok" =>
                    /\ (r.vault_x - vault_x) * lp_supply >= in.amount * vault_x
                    /\ (r.vault_y - vault_y) * lp_supply >= in.amount * vault_y

\* The two token types withhold no transfer fee.
ZeroTransferFees ==
    \A m \in Mints : ~ext[m].has_transfer_fee \/ ext[m].transfer_fee_basis_points = 0

\* The withdraw of the shares just deposited by `din`, run on the balances
\* the deposit leaves.
WithdrawAfter(din, d) ==
    WithdrawOn(d.vault_x, d.vault_y, d.lp_supply, d.user_lp,
               [user |-> din.user, amount |-> din.amount, min_x |-> 0, min_y |-> 0,
                mint_x |-> din.mint_x, mint_y |-> din.mint_y])

\* C11: with zero transfer fees, depositing s shares into a non-empty pool
\* and immediately withdrawing the same s shares returns amounts of X and Y
\* each less than or equal to the amounts deposited.
C11_RoundTripNeverGains ==
    (initialized /\ ~EmptyPool /\ ZeroTransferFees) =>
        \A din \in DepositInputs :
            LET d == DepositResult(din)
                w == WithdrawAfter(din, d)
            IN  d.err = "Ok" =>
                    /\ w.err = "Ok"
                    /\ w.user_gets_x <= d.gross_x
                    /\ w.user_gets_y <= d.gross_y

\* C11 witness: after a swap has moved the pool off its seeding ratio, a
\* deposit of a positive amount of each token can be made and withdrawn.
C11_Witness ==
    /\ initialized
    /\ ZeroTransferFees
    /\ last = "swap"
    /\ lp_supply > 0
    /\ \E din \in DepositInputs :
           LET d == DepositResult(din)
           IN  /\ d.err = "Ok"
               /\ d.gross_x > 0
               /\ d.gross_y > 0
               /\ d.gross_x * lp_supply # din.amount * vault_x
               /\ WithdrawAfter(din, d).err = "Ok"

\* The checks of withdraw that precede the slippage check all pass.
WithdrawReachesSlippage(in, r) ==
    /\ in.amount > 0
    /\ user_lp[in.user] >= in.amount
    /\ r.err \notin {"InvalidToken", "MathOverflow"}

\* C12: on every successful withdraw the amounts the user receives (vault
\* debit less the token type's transfer fee) are at least min_x and min_y; if
\* either net amount is below its minimum the withdraw fails with
\* SlippageExceeded.  (On failure the instruction is rolled back.)
C12_WithdrawHonoursMin ==
    initialized =>
        \A in \in WithdrawInputs :
            LET r == WithdrawResult(in)
                debit_x == vault_x - r.vault_x
                debit_y == vault_y - r.vault_y
                net_x == r.x - calculate_fee(ext[in.mint_x], r.x)
                net_y == r.y - calculate_fee(ext[in.mint_y], r.y)
            IN  /\ r.err = "Ok" =>
                    /\ r.user_gets_x = debit_x - calculate_fee(ext[in.mint_x], debit_x)
                    /\ r.user_gets_y = debit_y - calculate_fee(ext[in.mint_y], debit_y)
                    /\ r.user_gets_x >= in.min_x
                    /\ r.user_gets_y >= in.min_y
                /\ (WithdrawReachesSlippage(in, r) /\ (net_x < in.min_x \/ net_y < in.min_y))
                       => r.err = "SlippageExceeded"

\* C12 witness: after a withdraw from a pool whose token Y withholds a fee,
\* one withdraw with a positive minimum succeeds with a fee withheld, and one
\* whose gross amount reaches the minimum but whose net amount does not is
\* refused.
C12_Witness ==
    /\ initialized
    /\ last = "withdraw"
    /\ \E in \in WithdrawInputs :
           LET r == WithdrawResult(in)
           IN  /\ r.err = "Ok"
               /\ in.min_y > 0
               /\ r.user_gets_y < r.y
    /\ \E in \in WithdrawInputs :
           LET r == WithdrawResult(in)
           IN  /\ r.err = "SlippageExceeded"
               /\ r.y >= in.min_y
               /\ r.x >= in.min_x

\* C13: a successful withdraw of s shares requires the caller's share
\* balance >= s (else InsufficientFunds), reduces the share supply by exactly
\* s, and debits each vault by the proportional amount s * reserve / supply,
\* which never exceeds that vault's balance.
C13_WithdrawProportional ==
    initialized =>
        \A in \in WithdrawInputs :
            LET r == WithdrawResult(in)
            IN  /\ (in.amount > 0 /\ user_lp[in.user] < in.amount)
                       => r.err = "InsufficientFunds"
                /\ r.err = "Ok" =>
                       /\ user_lp[in.user] >= in.amount
                       /\ r.lp_supply = lp_supply - in.amount
                       /\ r.user_lp[in.user] = user_lp[in.user] - in.amount
                       /\ \A k \in Keys \ {in.user} : r.user_lp[k] = user_lp[k]
                       /\ vault_x - r.vault_x = (in.amount * vault_x) \div lp_supply
                       /\ vault_y - r.vault_y = (in.amount * vault_y) \div lp_supply
                       /\ vault_x - r.vault_x <= vault_x
                       /\ vault_y - r.vault_y <= vault_y
                       /\ r.vault_x >= 0
                       /\ r.vault_y >= 0

\* C13 witness: after a withdraw, a holder can withdraw part of the supply
\* with a rounded amount, and a caller who holds fewer shares than he asks
\* to withdraw is refused.
C13_Witness ==
    /\ initialized
    /\ last = "withdraw"
    /\ \E in \in WithdrawInputs :
           LET r == WithdrawResult(in)
           IN  /\ r.err = "Ok"
               /\ in.amount < lp_supply
               /\ (in.amount * vault_x) % lp_supply # 0
               /\ r.x > 0
    /\ \E in \in WithdrawInputs :
           /\ in.amount > 0
           /\ in.amount <= lp_supply
           /\ user_lp[in.user] < in.amount
           /\ WithdrawResult(in).err = "InsufficientFunds"

\* C14: degenerate zero quantities are rejected with InvalidAmount: a deposit
\* with shares = 0 or with max - fee(max) = 0 for either token, a withdraw
\* with shares = 0, a swap with amount = 0 or amount - fee(amount) = 0.  None
\* of them succeeds; the error is InvalidAmount whenever the call has no
\* other defect (the pool is not locked for a deposit, the mint accounts are
\* the pool's).
C14_ZeroQuantitiesRejected ==
    initialized =>
        /\ \A in \in DepositInputs :
               LET r == DepositResult(in)
                   zero ==
                       \/ in.amount = 0
                       \/ in.max_x - calculate_fee(ext[in.mint_x], in.max_x) = 0
                       \/ in.max_y - calculate_fee(ext[in.mint_y], in.max_y) = 0
                   mints_ok == in.mint_x = config.mint_x /\ in.mint_y = config.mint_y
               IN  zero =>
                       /\ r.err # "Ok"
                       /\ (~config.locked /\ mints_ok) => r.err = "InvalidAmount"
        /\ \A in \in WithdrawInputs :
               in.amount = 0 => WithdrawResult(in).err = "InvalidAmount"
        /\ \A in \in SwapInputs :
               LET r == SwapResult(in)
                   zero ==
                       \/ in.amount = 0
                       \/ in.amount - calculate_fee(InputExt(in), in.amount) = 0
                   mints_ok == in.mint_x = config.mint_x /\ in.mint_y = config.mint_y
               IN  zero =>
                       /\ r.err # "Ok"
                       /\ mints_ok => r.err = "InvalidAmount"

\* C14 witness: a pool one of whose tokens withholds the whole amount: a
\* deposit with positive maxima and a swap of a positive amount are refused
\* because the net amount is zero, as is a withdraw of no shares.
C14_Witness ==
    /\ initialized
    /\ \E in \in DepositInputs :
           /\ in.amount > 0 /\ in.max_x > 0 /\ in.max_y > 0
           /\ in.max_y - calculate_fee(ext[in.mint_y], in.max_y) = 0
           /\ DepositResult(in).err = "InvalidAmount"
    /\ \E in \in SwapInputs :
           /\ in.amount > 0
           /\ in.amount - calculate_fee(InputExt(in), in.amount) = 0
           /\ SwapResult(in).err = "InvalidAmount"
    /\ \E in \in WithdrawInputs :
           in.amount = 0 /\ WithdrawResult(in).err = "InvalidAmount"

----------------------------------------------------------------------------
(* The fee functions (FeeSpec) *)

\* The fee rate of the call's mint is in [0, 10000).
FeeRateBelowFull == calc.mint.transfer_fee_basis_points < BasisPoints

\* What a transfer of `gross` delivers: gross - fee(gross).
Delivered(gross) == gross - calculate_fee(create_extensions(calc.mint), gross)

\* C15: for every net amount n, every fee rate in [0, 10000) and every fee
\* cap, a transfer of gross_for_net(n) delivers at least n:
\* gross_for_net(n) - fee(gross_for_net(n)) >= n.
C15_GrossForNetDeliversNet ==
    (calc.fn = "calculate_gross_for_net" /\ FeeRateBelowFull)
        => Delivered(calc.out) >= calc.amount

\* C16: gross_for_net over-delivers by at most one unit: for every n, every
\* fee rate in [0, 10000) and the token's fee function, cap included,
\* gross_for_net(n) - fee(gross_for_net(n)) <= n + 1.
C16_GrossForNetOverByOne ==
    (calc.fn = "calculate_gross_for_net" /\ FeeRateBelowFull)
        => Delivered(calc.out) <= calc.amount + 1

\* ceil(a / b) for b > 0
CeilDiv(a, b) == (a + b - 1) \div b

\* C17: for every net amount and every fee rate with 0 < fee_bp < 10000,
\* calculate_gross_for_net(net) = ceil(net * 10000 / (10000 - fee_bp)); for
\* fee_bp = 0 or a token without transfer fee it is net.
C17_GrossForNetIsCeiling ==
    calc.fn = "calculate_gross_for_net" =>
        IF /\ calc.mint.has_transfer_fee_extension
           /\ calc.mint.transfer_fee_basis_points > 0
        THEN FeeRateBelowFull =>
                 calc.out = CeilDiv(calc.amount * BasisPoints,
                                    BasisPoints - calc.mint.transfer_fee_basis_points)
        ELSE calc.out = calc.amount

\* The fee the specification gives a transfer of `amount` of mint m.
SpecFee(m, amount) ==
    IF m.is_token_2022 /\ m.has_transfer_fee_extension
    THEN Min((amount * m.transfer_fee_basis_points) \div BasisPoints, m.maximum_fee)
    ELSE 0

----------------------------------------------------------------------------
(* Pool lifecycle (Spec) *)

\* Arguments of initialize around the limits of its checks.
InitializeCases ==
    { [in EXCEPT !.fee = f, !.bp = b, !.mint_y = my, !.programs_ok = p] :
        in \in InitializeInputs,
        f \in {0, MaxPoolFee, MaxPoolFee + 1},
        b \in {0, BasisPoints, BasisPoints + 1},
        my \in Mints,
        p \in BOOLEAN }

ImmutableFields(cfg) == <<cfg.seed, cfg.mint_x, cfg.mint_y, cfg.fee>>

\* C20: initialization is one-time and irreversible: a second initialize
\* for an existing pool fails (and so changes nothing), the pool never
\* returns to Uninitialized, and no later operation (lock, unlock, update_*,
\* collect_fees, deposit, withdraw, swap) changes seed, mint_x, mint_y or
\* the static fee.
C20_InitializeOnceForGood ==
    /\ [](initialized => \A in \in InitializeCases : InitializeResult(in) # "Ok")
    /\ [][initialized =>
              /\ initialized'
              /\ last' # "initialize"
              /\ ImmutableFields(config') = ImmutableFields(config)]_vars

\* The pool has been used and fees have then been collected.
C20_Witness ==
    /\ initialized
    /\ lp_supply > 0
    /\ last = "collect_fees"

----------------------------------------------------------------------------
(* Properties of the dynamic fee controller, under HookSpec *)

\* C24: after one or more successful transfer_hook invocations the base fee
\* is 10, the maximum fee is 300 and the current fee lies between them.
C24_FeeWithinSeededBounds ==
    fee_stats.total_transfers > 0 =>
        /\ fee_stats.base_fee_basis_points = 10
        /\ fee_stats.max_fee_basis_points = 300
        /\ fee_stats.base_fee_basis_points <= fee_stats.current_fee_basis_points
        /\ fee_stats.current_fee_basis_points <= fee_stats.max_fee_basis_points

\* A burst has driven the fee to the maximum and a burst penalty was then
\* applied to it.
C24_Witness ==
    /\ hook.err = "Ok"
    /\ hook.steps > 0
    /\ fee_stats.total_transfers > 130
    /\ hook.amount > BurstMultiple * BurstAmount
    /\ fee_stats.current_fee_basis_points = fee_stats.max_fee_basis_points

\* The controller has seen nothing but the opening burst: transfers of one
\* amount at one instant, so no slot has aged out and no burst penalty
\* has applied.
OnlyBurst == hook.steps = 0 /\ fee_stats.total_transfers > 0

\* C25 (as stated): from a freshly seeded controller, a burst of 130
\* transfers inside one window leaves the current fee at the maximum (300).
C25_BurstOf130ReachesMax ==
    (OnlyBurst /\ fee_stats.total_transfers = 130) =>
        fee_stats.current_fee_basis_points = fee_stats.max_fee_basis_points

\* C25 (amended): from a freshly seeded controller, a burst of equal
\* transfers inside one window leaves the current fee at the maximum (300)
\* exactly from the 138th transfer on; after 130 transfers it is 220, and
\* once the window holds more than 120 transfers the fee rises by the base
\* fee on every update until it reaches the maximum.
C25_BurstOf138ReachesMax ==
    OnlyBurst =>
        /\ fee_stats.current_fee_basis_points = fee_stats.max_fee_basis_points
               <=> fee_stats.total_transfers >= 138
        /\ fee_stats.total_transfers = 130 =>
               fee_stats.current_fee_basis_points = 220
        /\ fee_stats.total_transfers \in 120..138 =>
               fee_stats.current_fee_basis_points =
                   12 * fee_stats.base_fee_basis_points
                   + (fee_stats.total_transfers - 120)
                         * fee_stats.base_fee_basis_points

\* The burst has reached its 138th transfer.
C25_Witness ==
    /\ OnlyBurst
    /\ hook.err = "Ok"
    /\ fee_stats.total_transfers = 138
    /\ SumSlots(fee_stats.recent_transfers) = 138
    /\ fee_stats.current_fee_basis_points = SeedMaxFee

\* C26: when 360 seconds or more have passed since last_update_timestamp,
\* the next transfer clears all six ring slots before it counts itself: the
\* window then holds that transfer alone (count 1, its amount as volume)
\* and last_update_timestamp is the current time.
C26_FullWindowElapsedClearsRing ==
    [][(/\ hook'.err = "Ok"
        /\ clock' - fee_stats.last_update_timestamp >= RingSize * SlotSeconds)
       => /\ SumSlots(fee_stats'.recent_transfers) = 1
          /\ SumSlots(fee_stats'.recent_volumes) = hook'.amount
          /\ fee_stats'.last_update_timestamp = clock']_vars

\* A transfer has arrived a full window or more after a burst, and the
\* ring holds nothing else.
C26_Witness ==
    /\ hook.err = "Ok"
    /\ hook.steps > 0
    /\ fee_stats.total_transfers > 100
    /\ fee_stats.last_update_timestamp = clock
    /\ clock >= HookEpoch + RingSize * SlotSeconds
    /\ SumSlots(fee_stats.recent_transfers) = 1

\* C27: whenever the window total is computed at time t (a transfer at t
\* has been counted), every transfer the six slots count occurred no
\* earlier than t - 360 seconds.
C27_WindowCountsLastSixMinutesOnly ==
    hook.err = "Ok" =>
        \A i \in Slots :
            hook.oldest[i] # NoValue =>
                hook.oldest[i][1] >= clock - RingSize * SlotSeconds

\* What C28 says of a counted transfer of `amount` at `now`, `time_diff`
\* after the account's last_update_timestamp: the slots advanced into are
\* zeroed, the others kept, and the transfer counted in the current slot.
RingMovesAsStated(before, after, time_diff, now, amount) ==
    LET advance == IF time_diff >= 60
                   THEN (IF time_diff \div 60 < 6 THEN time_diff \div 60 ELSE 6)
                   ELSE 0
        advanced == { (before.current_minute_slot + k) % 6 : k \in 1..advance }
        current == (before.current_minute_slot + advance) % 6
    IN  /\ after.current_minute_slot = current
        /\ \A i \in Slots :
              /\ after.recent_transfers[i] =
                     (IF i \in advanced THEN 0 ELSE before.recent_transfers[i])
                     + (IF i = current THEN 1 ELSE 0)
              /\ after.recent_volumes[i] =
                     (IF i \in advanced THEN 0 ELSE before.recent_volumes[i])
                     + (IF i = current THEN amount ELSE 0)
        /\ after.last_update_timestamp =
               IF time_diff >= 60 THEN now ELSE before.last_update_timestamp

\* Time differences of a clock that has gone back, and around the minute.
ClockSkews == {-61, -60, -1, 0, 59, 60}

\* C28: on each transfer, with time_diff = now - last_update_timestamp: if
\* time_diff >= 60 the ring advances by exactly min(6, floor(time_diff/60))
\* slots, zeroing the count and the volume of exactly the slots advanced into
\* and leaving the others unchanged; if time_diff < 60, a negative
\* difference included, no slot is cleared and last_update_timestamp is
\* unchanged; current_minute_slot is always in 0..5.  (The first transfer
\* on a fresh account sets last_update_timestamp to the current time before
\* the difference is taken: its time_diff is 0.)
C28_RingAdvancesByWholeMinutes ==
    /\ [](fee_stats.current_minute_slot \in 0..5)
    /\ [][hook'.err = "Ok" =>
             IF fee_stats.total_transfers = 0
             THEN RingMovesAsStated(
                      [fee_stats EXCEPT !.last_update_timestamp = clock'],
                      fee_stats', 0, clock', hook'.amount)
             ELSE RingMovesAsStated(
                      fee_stats, fee_stats',
                      clock' - fee_stats.last_update_timestamp,
                      clock', hook'.amount)]_vars
    /\ [](fee_stats.total_transfers > 0 =>
             \A skew \in ClockSkews, amount \in HookAmounts :
                 LET now == fee_stats.last_update_timestamp + skew
                     r == transfer_hook(fee_stats, now, amount, TRUE,
                                        hook.overflow_checks)
                 IN  r.err = "Ok" =>
                         RingMovesAsStated(fee_stats, r.fee_stats, skew, now,
                                           amount))

\* After a burst a transfer has moved the ring by five slots, and a later
\* one, less than a minute after it, has been counted in the same slot.
C28_Witness ==
    /\ hook.err = "Ok"
    /\ hook.steps = 2
    /\ fee_stats.current_minute_slot = 5
    /\ fee_stats.recent_transfers[0] > 1
    /\ fee_stats.recent_transfers[5] = 2
    /\ fee_stats.last_update_timestamp = HookEpoch + 359
    /\ clock = HookEpoch + 359 + 59

\* The tiered target as C29 states it.
StatedTarget(st, total_tpm) ==
    CASE total_tpm <= 10 -> st.base_fee_basis_points
      [] total_tpm > 10 /\ total_tpm <= 30 -> 2 * st.base_fee_basis_points
      [] total_tpm > 30 /\ total_tpm <= 60 -> 5 * st.base_fee_basis_points
      [] total_tpm > 60 /\ total_tpm <= 120 -> 12 * st.base_fee_basis_points
      [] OTHER -> st.max_fee_basis_points

\* The fee a transfer finds: the seeded fee on a fresh account.
FeeBefore(before, after) ==
    IF before.total_transfers = 0
    THEN after.base_fee_basis_points
    ELSE before.current_fee_basis_points

\* The code has applied the burst penalty to the transfer just counted.
PenaltyWasApplied(after, amount) ==
    BurstPenaltyApplies(after.avg_transfer_size, amount,
                        as_u64(after.avg_transfer_size * BurstMultiple))

\* C29: the tiered target is base for a window total of at most 10, 2*base
\* up to 30, 5*base up to 60, 12*base up to 120 and the maximum fee above;
\* on every update on which no burst penalty applies the new fee lies
\* between the old fee and the target and differs from the old fee by at
\* most the base fee.
C29_TiersAndSmoothing ==
    [][hook'.err = "Ok" =>
          LET total_tpm == SumSlots(fee_stats'.recent_transfers)
              target == StatedTarget(fee_stats', total_tpm)
              old == FeeBefore(fee_stats, fee_stats')
              new == fee_stats'.current_fee_basis_points
          IN  /\ TieredFee(fee_stats', total_tpm) = target
              /\ ~PenaltyWasApplied(fee_stats', hook'.amount) =>
                    /\ Min(old, target) <= new
                    /\ new <= Max(old, target)
                    /\ new - old <= fee_stats'.base_fee_basis_points
                    /\ old - new <= fee_stats'.base_fee_basis_points]_vars

\* A burst has raised the fee to 220; a full window later a small transfer
\* finds the target back at the base fee and the fee comes down by one step.
C29_Witness ==
    /\ hook.err = "Ok"
    /\ hook.steps = 1
    /\ hook.amount = BurstAmount
    /\ fee_stats.total_transfers = 131
    /\ SumSlots(fee_stats.recent_transfers) = 1
    /\ fee_stats.current_fee_basis_points = 210

\* The smoothed fee of the transfer just counted, before cap and penalty.
SmoothedOf(before, after) ==
    SmoothedFee([after EXCEPT !.current_fee_basis_points =
                                 FeeBefore(before, after)],
                TieredFee(after, SumSlots(after.recent_transfers)))

\* C30: the burst penalty applies exactly when the transfer's amount
\* exceeds 10 times the running average transfer size: the fee is then
\* min(floor(1.5 * smoothed), max), otherwise min(smoothed, max); the first
\* transfer ever recorded never incurs the penalty.
C30_PenaltyExactlyAboveTenTimesAverage ==
    [][hook'.err = "Ok" =>
          LET smoothed == SmoothedOf(fee_stats, fee_stats')
              max_fee == fee_stats'.max_fee_basis_points
              new == fee_stats'.current_fee_basis_points
          IN  /\ new = IF hook'.amount > 10 * fee_stats'.avg_transfer_size
                       THEN Min((3 * smoothed) \div 2, max_fee)
                       ELSE Min(smoothed, max_fee)
              /\ fee_stats.total_transfers = 0 => new = Min(smoothed, max_fee)]_vars

----------------------------------------------------------------------------
(* One instruction of the pool, statement by statement.  A handler is the   *)
(* sequence of its statements that can fail or that call the token          *)
(* program, in the order of the source:                                     *)
(*   "check"     a require!, a `?` on the pool's own arithmetic, or a       *)
(*               computation that can panic;                                *)
(*   "parse"     TokenExtensions::new of a mint, whose outcome depends on   *)
(*               the mint account alone;                                    *)
(*   "transfer", "mint", "burn"   a call of the token program.              *)

Stmt(kind, of, line) == [kind |-> kind, of |-> of, line |-> line]

\* deposit_tokens / withdraw_tokens: the mint is parsed, then transferred.
TransferTokens(of, parse_line, transfer_line) ==
    <<Stmt("parse", of, parse_line), Stmt("transfer", of, transfer_line)>>

\* deposit.rs with the slippage check on the gross amounts made after the
\* first transfer.
DepositProgramMutant(empty) ==
    <<Stmt("check", "PoolLocked", 91),
      Stmt("check", "InvalidAmount", 92),
      Stmt("check", "InvalidToken", 95),
      Stmt("check", "InvalidToken", 96),
      Stmt("parse", "x", 100),
      Stmt("parse", "y", 101),
      Stmt("check", "InvalidAmount", 109)>>
    \o (IF empty THEN << >>
        ELSE <<Stmt("check", "MathOverflow", 126),
               Stmt("check", "SlippageExceeded", 129)>>)
    \o <<Stmt("parse", "x", 139),
         Stmt("parse", "y", 140),
         Stmt("check", "ProgramFailedToComplete", 141)>>
    \o TransferTokens("x", 179, 193)
    \o <<Stmt("check", "SlippageExceeded", 144)>>
    \o TransferTokens("y", 179, 193)
    \o <<Stmt("mint", "lp", 254)>>

\* Deposit::deposit, deposit.rs:84-152
DepositProgram(empty) ==
    <<Stmt("check", "PoolLocked", 91),
      Stmt("check", "InvalidAmount", 92),
      Stmt("check", "InvalidToken", 95),
      Stmt("check", "InvalidToken", 96),
      Stmt("parse", "x", 100),
      Stmt("parse", "y", 101),
      Stmt("check", "InvalidAmount", 109)>>
    \o (IF empty THEN << >>
        ELSE <<Stmt("check", "MathOverflow", 126),
               Stmt("check", "SlippageExceeded", 129)>>)
    \o <<Stmt("parse", "x", 139),
         Stmt("parse", "y", 140),
         Stmt("check", "ProgramFailedToComplete", 141),
         Stmt("check", "SlippageExceeded", 144)>>
    \o TransferTokens("x", 179, 193)
    \o TransferTokens("y", 179, 193)
    \o <<Stmt("mint", "lp", 254)>>

\* Withdraw::withdraw, withdraw.rs:83-139
WithdrawProgram ==
    <<Stmt("check", "InvalidAmount", 90),
      Stmt("check", "InsufficientFunds", 91),
      Stmt("check", "InvalidToken", 94),
      Stmt("check", "InvalidToken", 95),
      Stmt("check", "MathOverflow", 105),
      Stmt("parse", "x", 110),
      Stmt("parse", "y", 111),
      Stmt("check", "SlippageExceeded", 120),
      Stmt("check", "InsufficientFunds", 126)>>
    \o TransferTokens("x", 173, 188)
    \o TransferTokens("y", 173, 188)
    \o <<Stmt("burn", "lp", 250)>>

\* Swap::swap, swap.rs:86-161; the input mint is x when is_x.
SwapProgram(is_x) ==
    LET input == IF is_x THEN "x" ELSE "y"
        output == IF is_x THEN "y" ELSE "x"
    IN  <<Stmt("check", "InvalidToken", 94),
          Stmt("check", "InvalidToken", 95),
          Stmt("parse", input, 106),
          Stmt("check", "InvalidAmount", 111),
          Stmt("check", "MathOverflow", 129),
          Stmt("check", "SlippageExceeded", 138),
          Stmt("parse", output, 142),
          Stmt("check", "ProgramFailedToComplete", 143),
          Stmt("check", "InsufficientFunds", 152)>>
        \o TransferTokens(input, 188, 202)
        \o TransferTokens(output, 282, 296)

Handlers == {"deposit", "withdraw", "swap"}

\* The statements of the instruction being executed.
Program ==
    CASE run.handler = "deposit" -> DepositProgram(run.empty)
      [] run.handler = "withdraw" -> WithdrawProgram
      [] run.handler = "swap" -> SwapProgram(run.is_x)
      [] OTHER -> << >>

\* The instruction is at a statement of the given kinds.
At(kinds) ==
    /\ run.err = "none"
    /\ run.pc \in 1..Len(Program)
    /\ Program[run.pc].kind \in kinds

\* An instruction starts: the pool is empty or not, the swap is of x or of
\* y, each mint account parses or not.
RunInit ==
    /\ initialized = FALSE
    /\ config = NoConfig
    /\ vault_x = 0
    /\ vault_y = 0
    /\ lp_supply = 0
    /\ user_lp = [k \in Keys |-> 0]
    /\ ext = [m \in Mints |-> Plain]
    /\ last = "none"
    /\ calc = NoCalc
    /\ fee_stats = ZeroStats
    /\ clock = HookEpoch
    /\ hook = NoHook
    /\ \E handler \in Handlers, empty \in BOOLEAN, is_x \in BOOLEAN,
          parses \in [{"x", "y"} -> BOOLEAN] :
           run = [NoRun EXCEPT !.handler = handler, !.empty = empty,
                               !.is_x = is_x, !.parses = parses, !.pc = 1]
    /\ dex = NoDex

RunUnchanged ==
    UNCHANGED <<initialized, config, vault_x, vault_y, lp_supply, user_lp,
                ext, last, calc, hook_vars, dex>>

\* A check of the pool passes or returns its error.
Check ==
    /\ At({"check"})
    /\ \E passes \in BOOLEAN :
           run' = IF passes
                  THEN [run EXCEPT !.pc = @ + 1]
                  ELSE [run EXCEPT !.err = Program[run.pc].of]
    /\ RunUnchanged

\* TokenExtensions::new succeeds or fails as the mint account has it.
Parse ==
    /\ At({"parse"})
    /\ run' = IF run.parses[Program[run.pc].of]
              THEN [run EXCEPT !.pc = @ + 1]
              ELSE [run EXCEPT !.err = "InvalidAccountData"]
    /\ RunUnchanged

\* A transfer, mint or burn is issued; the token program carries it out or
\* rejects it.
Issue ==
    /\ At({"transfer", "mint", "burn"})
    /\ \E accepted \in BOOLEAN :
           run' = IF accepted
                  THEN [run EXCEPT !.pc = @ + 1, !.issued = @ + 1]
                  ELSE [run EXCEPT !.issued = @ + 1, !.err = "TokenProgram"]
    /\ RunUnchanged

\* The handler returns Ok(()).
Return ==
    /\ run.err = "none"
    /\ run.handler \in Handlers
    /\ run.pc = Len(Program) + 1
    /\ run' = [run EXCEPT !.err = "Ok"]
    /\ RunUnchanged

RunNext ==
    \/ Check
    \/ Parse
    \/ Issue
    \/ Return

RunSpec == RunInit /\ [][RunNext]_vars

\* C22: in deposit, withdraw and swap every check of the pool is evaluated
\* before the first transfer, mint or burn is issued: no check of the pool
\* is made once a transfer has been issued, and an instruction that fails
\* after its first transfer fails in the token program.
C22_ChecksBeforeTransfers ==
    /\ [][At({"check"}) => run.issued = 0]_vars
    /\ [](run.issued > 0 /\ run.err \notin {"none", "Ok"} =>
              run.err = "TokenProgram")

\* A deposit into a pool that is not empty has passed every check and
\* transferred x; the token program has rejected the transfer of y.
C22_Witness ==
    /\ run.handler = "deposit"
    /\ ~run.empty
    /\ run.issued = 2
    /\ run.err = "TokenProgram"

----------------------------------------------------------------------------
(* The fee of a swap, under Spec *)

\* The mint has a transfer hook whose program the pool has approved.
HookApproved(e) ==
    /\ e.has_transfer_hook
    /\ config.default_hook_program # None
    /\ e.transfer_hook_program_id = config.default_hook_program

\* C23: a swap uses the controller's current_fee_basis_points in place of
\* the pool's static fee only when a token of the pool has a transfer hook
\* whose program is on the pool's whitelist; with a hook program the pool
\* has not approved, the pool having approved none included, the swap uses
\* config.fee.
C23_DynamicFeeOnlyFromApprovedHook ==
    initialized =>
        \A in \in SwapInputs :
            (/\ SwapResult(in).err = "Ok"
             /\ ~HookApproved(ext[in.mint_x])
             /\ ~HookApproved(ext[in.mint_y]))
            => SwapResult(in).dynamic_fee = config.fee

----------------------------------------------------------------------------
(* Arithmetic of the dynamic fee controller, under HookSpec *)

\* The fee of the transfer just counted, every product taken exactly.
ExactFee(before, after, amount) ==
    LET capped == Min(SmoothedOf(before, after), after.max_fee_basis_points)
    IN  IF after.avg_transfer_size > 0
           /\ amount > after.avg_transfer_size * BurstMultiple
        THEN Min((3 * capped) \div 2, after.max_fee_basis_points)
        ELSE capped

\* C31: a transfer_hook invocation on a transfer in progress either
\* completes with every counter and intermediate value equal to the exact
\* integer result, or fails with MathOverflow: no step wraps (and none
\* ends the program in another way).
C31_ExactOrMathOverflow ==
    /\ [](hook.err \in {"none", "Ok", "MathOverflow", "InvalidTransferState"})
    /\ [][hook'.err = "Ok" =>
             fee_stats'.current_fee_basis_points =
                 ExactFee(fee_stats, fee_stats', hook'.amount)]_vars

\* C32: with several pools issuing transfers of the hooked token in any
\* interleaving, each invocation atomic, the shared DynamicFeeStats record
\* has in every reachable state: total_transfers = number of successful
\* invocations, total_volume = sum of their amounts, and the ring sums are
\* at most the totals.
C32_SharedTotalsAreExact ==
    /\ fee_stats.total_transfers = hook.successes
    /\ fee_stats.total_volume = hook.volume
    /\ SumSlots(fee_stats.recent_transfers) <= fee_stats.total_transfers
    /\ SumSlots(fee_stats.recent_volumes) <= fee_stats.total_volume

\* Transfers of both pools have been counted, the last by the second pool
\* after the ring had moved on from the burst.
C32_Witness ==
    /\ hook.err = "Ok"
    /\ hook.pool = "p2"
    /\ hook.steps = 2
    /\ hook.successes > 10
    /\ hook.volume > hook.successes
    /\ SumSlots(fee_stats.recent_transfers) < fee_stats.total_transfers

----------------------------------------------------------------------------
(* The gross amount of a net amount, under FeeSpec *)

\* The quotient net * 10000 / (10000 - bp) of the mint's fee rate, exact;
\* the net amount itself for a mint without a fee.
ExactGross(e, net_amount) ==
    IF e.has_transfer_fee /\ e.transfer_fee_basis_points \in 1..(BasisPoints - 1)
    THEN (net_amount * BasisPoints) \div (BasisPoints - e.transfer_fee_basis_points)
    ELSE net_amount

\* C33: for every net amount and every fee rate up to and including
\* 10000 bp, the gross amount computed for a swap output or a deposit is
\* never smaller than the net amount and never a truncated or wrapped
\* value: it is the exact quotient, or the operation fails with a typed
\* error; it never panics.
C33_GrossIsExactOrTypedError ==
    calc.fn = "calculate_gross_for_net" =>
        /\ ~calc.panicked
        /\ calc.out >= calc.amount
        /\ calc.out = ExactGross(create_extensions(calc.mint), calc.amount)

----------------------------------------------------------------------------
(* The update_* instructions, under Spec *)

\* C34: after a successful update_fee_destination, update_hook_program or
\* update_transfer_fee_config by the pool authority, the pool's config holds
\* the new value for every later operation; update_transfer_fee_config with
\* more than 10000 basis points fails with InvalidFee and changes nothing.
C34_UpdatesTakeEffect ==
    initialized =>
        \A authority \in Keys :
            /\ \A h \in NewHookPrograms :
                   LET r == UpdateHookProgramResult(authority, h)
                   IN  r.err = "Ok" => r.config.default_hook_program = h
            /\ \A d \in Keys :
                   LET r == UpdateFeeDestinationResult(authority, d)
                   IN  r.err = "Ok" => r.config.fee_destination = d
            /\ \A bp \in NewFeeBasisPoints, max_fee \in NewMaxFees :
                   LET r == UpdateTransferFeeConfigResult(authority, bp, max_fee)
                   IN  /\ r.err = "Ok" =>
                           /\ r.config.default_transfer_fee_basis_points = bp
                           /\ r.config.default_transfer_fee_max = max_fee
                       /\ (bp > 10000 /\ config.authority = authority) =>
                           /\ r.err = "InvalidFee"
                           /\ r.config = config

----------------------------------------------------------------------------
(* amm_dex: the second pool program of the repository.  Its deposit and     *)
(* withdraw handlers are modelled on the accounts of one pool and one user. *)
(* The curve crate is the one of section 4.1 of the specification.          *)

\* anchor_spl::token::transfer of `amount` from the user's account to the
\* vault: SPL Token refuses a transfer the source cannot cover.
AmmDexTransfer(from, to, amount) ==
    IF from < amount
    THEN [err |-> "InsufficientFunds", from |-> from, to |-> to]
    ELSE [err |-> "Ok", from |-> from - amount, to |-> to + amount]

\* The amounts (x, y) of deposit.rs and of withdraw.rs: the caller's maxima on
\* an empty pool, the curve's amounts otherwise (`.unwrap()` of its result).
AmmDexAmounts(d, curve, max_x, max_y) ==
    IF d.lp_supply = 0 /\ d.vault_x = 0 /\ d.vault_y = 0
    THEN [ok |-> TRUE, x |-> max_x, y |-> max_y]
    ELSE curve

\* The checks, the two transfers and the mint_to that Deposit::deposit and
\* Withdraw::withdraw have in common.  `validates` is the outcome of Anchor's
\* account validation (the seeds constraints compare a derived address, a
\* hash that the model does not compute).  A failure rolls the instruction
\* back.
AmmDexHandler(d, name, validates, amounts, amount, max_x, max_y) ==
    LET fail(e) == [d EXCEPT !.last = e, !.amount = amount]
        tx == AmmDexTransfer(d.user_x, d.vault_x, amounts.x)
        ty == AmmDexTransfer(d.user_y, d.vault_y, amounts.y)
    IN  IF ~validates THEN fail("ConstraintSeeds")
        ELSE IF d.locked THEN fail("PoolLocked")
        ELSE IF amount = 0 THEN fail("InvalidAmount")
        ELSE IF ~amounts.ok THEN fail("Panic")
        ELSE IF ~(amounts.x <= max_x /\ amounts.y <= max_y)
        THEN fail("SlippageExceeded")
        ELSE IF tx.err # "Ok" THEN fail(tx.err)
        ELSE IF ty.err # "Ok" THEN fail(ty.err)
        ELSE [d EXCEPT !.user_x = tx.from, !.vault_x = tx.to,
                       !.user_y = ty.from, !.vault_y = ty.to,
                       !.lp_supply = @ + amount, !.user_lp = @ + amount,
                       !.last = name, !.amount = amount]

\* Deposit::deposit: deposit_tokens(true, x), deposit_tokens(false, y),
\* mint_lp_tokens(amount).
AmmDexDepositResult(d, validates, amount, max_x, max_y) ==
    AmmDexHandler(d, "deposit", validates,
                  AmmDexAmounts(d, xy_deposit_amounts_from_l(
                                       d.vault_x, d.vault_y, d.lp_supply,
                                       amount), max_x, max_y),
                  amount, max_x, max_y)

\* Withdraw::withdraw: withdraw_tokens(true, x) and withdraw_tokens(false, y)
\* transfer from user_x / user_y to vault_x / vault_y with the user as
\* authority, and burn_lp_tokens(amount) calls mint_to.
AmmDexWithdrawResult(d, validates, amount, max_x, max_y) ==
    AmmDexHandler(d, "withdraw", validates,
                  AmmDexAmounts(d, xy_withdraw_amounts_from_l(
                                       d.vault_x, d.vault_y, d.lp_supply,
                                       amount), max_x, max_y),
                  amount, max_x, max_y)

AmmDexInit ==
    /\ initialized = FALSE
    /\ config = NoConfig
    /\ vault_x = 0
    /\ vault_y = 0
    /\ lp_supply = 0
    /\ user_lp = [k \in Keys |-> 0]
    /\ ext = [m \in Mints |-> Plain]
    /\ last = "none"
    /\ calc = NoCalc
    /\ fee_stats = ZeroStats
    /\ clock = HookEpoch
    /\ hook = NoHook
    /\ run = NoRun
    /\ dex = NoDex

AmmDexUnchanged ==
    UNCHANGED <<initialized, config, vault_x, vault_y, lp_supply, user_lp,
                ext, last, calc, hook_vars, run>>

AmmDexDeposit ==
    /\ \E validates \in BOOLEAN, amount \in Shares, max_x \in Amounts,
          max_y \in Amounts :
           /\ dex.lp_supply + amount <= MaxSupply
           /\ dex' = AmmDexDepositResult(dex, validates, amount, max_x, max_y)
    /\ AmmDexUnchanged

AmmDexWithdraw ==
    /\ \E validates \in BOOLEAN, amount \in Shares, max_x \in Amounts,
          max_y \in Amounts :
           /\ dex.lp_supply + amount <= MaxSupply
           /\ dex' = AmmDexWithdrawResult(dex, validates, amount, max_x, max_y)
    /\ AmmDexUnchanged

AmmDexNext ==
    \/ AmmDexDeposit
    \/ AmmDexWithdraw

AmmDexSpec == AmmDexInit /\ [][AmmDexNext]_vars

----------------------------------------------------------------------------
(* The fee of a swap and the accounts its caller passes, under Spec *)

\* C36: two swaps on the same pool with the same arguments apply the same
\* fee whatever auxiliary accounts the caller supplies (here: whatever the
\* eighth remaining account is, or whether it is passed at all).
C36_FeeIndependentOfAuxiliaryAccounts ==
    initialized =>
        \A a \in SwapInputs, b \in SwapInputs :
            (/\ [a EXCEPT !.fee_stats = NoValue] = [b EXCEPT !.fee_stats = NoValue]
             /\ SwapResult(a).err = "Ok"
             /\ SwapResult(b).err = "Ok")
            => SwapResult(a).dynamic_fee = SwapResult(b).dynamic_fee


----------------------------------------------------------------------------
(* A swap of a pool whose token X has the transfer hook, together with the  *)
(* controller: the swap reads the fee, then its transfer of X invokes       *)
(* transfer_hook.  The caller passes the controller's account.              *)

SilenceSteps == {0, 360}     \* seconds without a transfer before an arrival
SwapAmounts == {1, 11}

\* The swap with the fee read after its transfers.
SwapFeeProgramMutant(is_x) ==
    SelectSeq(SwapProgram(is_x), LAMBDA s : s.kind = "transfer")
    \o <<Stmt("read", "fee_stats", 117)>>

\* Swap::swap, the statements that touch the controller: get_dynamic_fee at
\* swap.rs:117, then deposit_tokens (156) and withdraw_tokens (158).
SwapFeeProgram(is_x) ==
    <<Stmt("read", "fee_stats", 117)>>
    \o SelectSeq(SwapProgram(is_x), LAMBDA s : s.kind = "transfer")

\* The mint of the pool that has the transfer hook.
HookedMint == "x"

\* The swap is at a statement of the kind.
SwapAt(kind) ==
    /\ run.handler = "swap"
    /\ run.err = "none"
    /\ run.pc \in 1..Len(SwapFeeProgram(run.is_x))
    /\ SwapFeeProgram(run.is_x)[run.pc].kind = kind

SwapFeeUnchanged ==
    UNCHANGED <<initialized, config, vault_x, vault_y, lp_supply, user_lp,
                ext, last, calc, dex>>

\* A transfer of the hooked token by some other pool or user, before the
\* swap (a transaction is atomic: none arrives while the swap is executed).
OtherTransfer ==
    /\ run.handler = "none"
    /\ \E dt \in SilenceSteps, amount \in SwapAmounts :
           TransferHookStep("p2", dt, amount, TRUE)

\* Time passes and a swap of the pool starts.
SwapStarts ==
    /\ run.handler = "none"
    /\ \E dt \in SilenceSteps, is_x \in BOOLEAN :
           /\ clock + dt <= HookEpoch + MaxElapsed
           /\ clock' = clock + dt
           /\ run' = [NoRun EXCEPT !.handler = "swap", !.is_x = is_x, !.pc = 1]
    /\ UNCHANGED <<fee_stats, hook>>
    /\ SwapFeeUnchanged

\* swap.rs:117: get_dynamic_fee parses current_fee_basis_points out of the
\* controller's account.
SwapReadsFee ==
    /\ SwapAt("read")
    /\ run' = [run EXCEPT !.fee_read = Some(fee_stats.current_fee_basis_points),
                          !.pc = @ + 1]
    /\ UNCHANGED <<fee_stats, clock, hook>>
    /\ SwapFeeUnchanged

\* A transfer of the swap; the token program invokes transfer_hook when the
\* mint is the hooked one, and the transfer fails when the hook fails.
SwapTransfers ==
    /\ SwapAt("transfer")
    /\ \E amount \in SwapAmounts :
        LET hooked == SwapFeeProgram(run.is_x)[run.pc].of = HookedMint
            r == IF hooked
                 THEN transfer_hook(fee_stats, clock, amount, TRUE,
                                    hook.overflow_checks)
                 ELSE HookReturn("Ok", fee_stats)
        IN  /\ fee_stats' = AccountAfter(r.err, fee_stats, r.fee_stats)
            /\ hook' = IF hooked
                       THEN [hook EXCEPT
                                !.err = r.err,
                                !.amount = amount,
                                !.pool = "p1",
                                !.successes = IF r.err = "Ok" THEN @ + 1 ELSE @,
                                !.volume = IF r.err = "Ok" THEN @ + amount
                                                           ELSE @]
                       ELSE hook
            /\ run' = IF r.err = "Ok"
                      THEN [run EXCEPT !.pc = @ + 1, !.issued = @ + 1]
                      ELSE [run EXCEPT !.issued = @ + 1, !.err = "TokenProgram"]
    /\ UNCHANGED clock
    /\ SwapFeeUnchanged

\* The swap returns Ok(()).
SwapReturns ==
    /\ run.handler = "swap"
    /\ run.err = "none"
    /\ run.pc = Len(SwapFeeProgram(run.is_x)) + 1
    /\ run' = [run EXCEPT !.err = "Ok"]
    /\ UNCHANGED <<fee_stats, clock, hook>>
    /\ SwapFeeUnchanged

SwapFeeNext ==
    \/ OtherTransfer
    \/ SwapStarts
    \/ SwapReadsFee
    \/ SwapTransfers
    \/ SwapReturns

SwapFeeSpec == HookInit /\ [][SwapFeeNext]_vars

\* C37: the controller's account changes only inside a transfer_hook that
\* succeeds: time passing, a swap starting, reading the fee or returning
\* leave it as it was; and the fee a swap reads is the stored
\* current_fee_basis_points, read before the swap has issued a transfer.
C37_ControllerChangesOnlyInTransferHook ==
    /\ [][fee_stats' # fee_stats => hook'.successes = hook.successes + 1]_vars
    /\ [][run'.fee_read # run.fee_read /\ run'.handler = run.handler =>
              /\ run'.fee_read = Some(fee_stats.current_fee_basis_points)
              /\ fee_stats' = fee_stats
              /\ run.issued = 0]_vars

\* After a burst that has taken the fee to the maximum and six minutes of
\* silence a swap has read the maximum; its own transfer of X has then moved
\* the controller's fee down.
C37_Witness ==
    /\ run.err = "Ok"
    /\ run.fee_read = Some(SeedMaxFee)
    /\ fee_stats.current_fee_basis_points = SeedMaxFee - SeedBaseFee
    /\ clock = HookEpoch + 360


----------------------------------------------------------------------------
(* The controller over a long run of transfers: an opening burst at one     *)
(* instant, a few transfers with any of the inputs, then transfers of one   *)
(* amount at a steady pace, a minute or a full window apart.                *)

MaxDecaySteps == 36      \* transfer_hook invocations after the opening burst

DecaySteps == {60, 360}
DecayAmounts == {1, 11}

\* The transfer just counted found at most ten transfers in the window and
\* drew no burst penalty.
IsQuiet(after, amount) ==
    /\ SumSlots(after.recent_transfers) <= 10
    /\ ~PenaltyWasApplied(after, amount)

\* A transfer of the opening burst, one of the few that follow it, or one at
\* the steady pace.
DecayArrival(dt, amount, steady) ==
    \/ /\ ~steady
       /\ hook.steps = 0
       /\ fee_stats.total_transfers < MaxBurst
       /\ dt = 0
       /\ amount = BurstAmount
    \/ /\ hook.steps > 0 \/ fee_stats.total_transfers \in BurstSizes
       /\ dt \in DecaySteps
       /\ IF steady
          THEN /\ hook.steps < MaxDecaySteps
               /\ amount = BurstAmount
               /\ hook.gap \in {0, dt}
          ELSE /\ hook.steps < MaxHookSteps
               /\ hook.gap = 0

DecayTransferStep(dt, amount, steady) ==
    /\ DecayArrival(dt, amount, steady)
    /\ LET now == clock + dt
           r == transfer_hook(fee_stats, now, amount, TRUE, hook.overflow_checks)
       IN  /\ clock' = now
           /\ fee_stats' = AccountAfter(r.err, fee_stats, r.fee_stats)
           /\ hook' = [hook EXCEPT
                          !.err = r.err,
                          !.amount = amount,
                          !.successes = IF r.err = "Ok" THEN @ + 1 ELSE @,
                          !.volume = IF r.err = "Ok" THEN @ + amount ELSE @,
                          !.steps = IF dt = 0 THEN @ ELSE @ + 1,
                          !.gap = IF steady THEN dt ELSE @,
                          !.quiet = IF r.err # "Ok" THEN @
                                    ELSE IF IsQuiet(r.fee_stats, amount)
                                    THEN @ + 1 ELSE 0]
    /\ UNCHANGED <<initialized, config, vault_x, vault_y, lp_supply, user_lp,
                   ext, last, calc, run, dex>>

DecayTransfer ==
    \E dt \in DecaySteps \cup {0}, amount \in DecayAmounts \cup {BurstAmount},
       steady \in BOOLEAN :
        DecayTransferStep(dt, amount, steady)

DecayNext == DecayTransfer

DecaySpec == HookInit /\ [][DecayNext]_vars

\* C38: every transfer that finds at most ten transfers in the window and
\* draws no burst penalty lowers the fee by min(base, current - base), and
\* after 29 such transfers in a row the fee is the base fee and stays there.
C38_QuietTransfersDecayToBase ==
    /\ [][hook'.quiet = hook.quiet + 1 =>
              LET current == FeeBefore(fee_stats, fee_stats')
                  base == fee_stats'.base_fee_basis_points
              IN  fee_stats'.current_fee_basis_points
                      = current - Min(base, current - base)]_vars
    /\ [](hook.quiet >= 29 =>
              fee_stats.current_fee_basis_points
                  = fee_stats.base_fee_basis_points)

\* A burst of 138 transfers has taken the fee to the maximum; 29 quiet
\* transfers later the fee is the base fee.
C38_Witness ==
    /\ fee_stats.total_transfers = 138 + 29
    /\ hook.quiet = 29
    /\ fee_stats.current_fee_basis_points = SeedBaseFee


----------------------------------------------------------------------------
(* The reserves of a pool with outstanding shares, under Spec *)

\* C39: in a pool whose share supply is positive both vault balances are
\* strictly positive, after any sequence of deposits, withdraws and swaps.
C39_ReservesStayPositive ==
    initialized /\ lp_supply > 0 => vault_x > 0 /\ vault_y > 0

====
